---------------------------- MODULE Spec2Model ----------------------------
(***************************************************************************)
(* SmartCourse course-service: the progress aggregation engine, the        *)
(* enrollment store, the course store and the read-through cache, as a     *)
(* state machine of concurrently executing request handlers.               *)
(*                                                                         *)
(* Every request handler is a process: pc[p] is the await point it is at,  *)
(* call[p] its arguments, loc[p] its local variables.  One action is one   *)
(* store or cache round trip (one await) together with the straight-line   *)
(* code that follows it up to the next await.                              *)
(***************************************************************************)
EXTENDS Integers, Sequences, FiniteSets, TLC

VARIABLES
    enrollments,   \* table enrollments: row id = index
    progress,      \* table progress: row id = index
    certificates,  \* table certificates
    content,       \* collection course_content: course_id -> document
    courses,       \* table courses: row id = index
    cache,         \* the key-value store: present key -> JSON text
    redisUp,       \* whether connect_redis left a client (else None)
    clock,         \* wall clock, read by datetime.utcnow()
    pc, call, loc, \* the request handlers
    log            \* the responses sent so far, oldest first

vars == <<enrollments, progress, certificates, content, courses, cache,
          redisUp, clock, pc, call, loc, log>>

(***************************************************************************)
(* Bounds of the model.                                                    *)
(***************************************************************************)
NumProcs == 2   \* request handlers that may be in flight together
MaxCalls == 3   \* requests served in one behaviour, one at a time
MaxRacing == 2  \* requests served in one behaviour when they may overlap
NumUsers == 2   \* user ids 1..NumUsers

Procs == 1..NumProcs
Users == 1..NumUsers
ProgressCourses == {1}
\* the (item_type, item_id) pairs requests name
MarkPool == {<<"lesson", "1">>, <<"lesson", "2">>, <<"quiz", "1">>}

None == 0       \* NULL / None for ids and timestamps (real ones are >= 1)

\* datetime.utcnow(): later than the timestamps of the rows that exist at
\* start-up, which are 1
Now == clock + 1

(***************************************************************************)
(* dict.get(key, default) on a document node.                              *)
(***************************************************************************)
Get(d, k, default) == IF k \in DOMAIN d THEN d[k] ELSE default

\* str() of an integer identifier
StrTable == <<"1", "2", "3">>
Str(n) == StrTable[n]

(***************************************************************************)
(* Course content documents.                                               *)
(***************************************************************************)
NoDoc == [present |-> FALSE, modules |-> <<>>]
Doc(mods) == [present |-> TRUE, modules |-> mods]
Lesson(n) == [lesson_id |-> n]
InactiveLesson(n) == [lesson_id |-> n, is_active |-> FALSE]
Module(id, ls) == [module_id |-> id, lessons |-> ls]
ModuleQ(id, ls, qs) == [module_id |-> id, is_active |-> TRUE, lessons |-> ls,
                        quizzes |-> qs]

ContentPool ==
    { NoDoc,
      Doc(<<>>),
      Doc(<<Module(1, <<Lesson(1)>>)>>),
      Doc(<<Module(1, <<Lesson(1), Lesson(2)>>)>>),
      Doc(<<Module(1, <<Lesson(1), InactiveLesson(2)>>)>>),
      Doc(<<ModuleQ(1, <<Lesson(1)>>, <<[quiz_id |-> 1]>>)>>) }

(***************************************************************************)
(* ProgressService._get_active_items, on the document as fetched.          *)
(***************************************************************************)
RECURSIVE ActiveOf(_, _, _)
ActiveOf(nodes, type, idField) ==
    IF nodes = <<>> THEN <<>>
    ELSE LET n == Head(nodes)
             rest == ActiveOf(Tail(nodes), type, idField)
         IN IF ~Get(n, "is_active", TRUE) THEN rest
            ELSE <<[type |-> type, id |-> Str(n[idField])]>> \o rest

RECURSIVE ActiveItemsOfModules(_)
ActiveItemsOfModules(mods) ==
    IF mods = <<>> THEN <<>>
    ELSE LET m == Head(mods)
             rest == ActiveItemsOfModules(Tail(mods))
         IN IF ~Get(m, "is_active", TRUE) THEN rest
            ELSE ActiveOf(Get(m, "lessons", <<>>), "lesson", "lesson_id")
                 \o ActiveOf(Get(m, "quizzes", <<>>), "quiz", "quiz_id")
                 \o ActiveOf(Get(m, "summaries", <<>>), "summary", "summary_id")
                 \o rest

GetActiveItems(doc) ==
    IF ~doc.present THEN <<>> ELSE ActiveItemsOfModules(doc.modules)

(***************************************************************************)
(* round((completed_count / total_items) * 100, 2), in hundredths of a     *)
(* percent (60.00 is 6000); Python rounds half to even.                    *)
(***************************************************************************)
RoundedPercent(completed_count, total_items) ==
    LET n == 10000 * completed_count
        q == n \div total_items
        r == n % total_items
    IN IF 2 * r > total_items \/ (2 * r = total_items /\ q % 2 = 1)
       THEN q + 1 ELSE q

Percentage(completed_count, total_items) ==
    IF total_items > 0 THEN RoundedPercent(completed_count, total_items) ELSE 0

(***************************************************************************)
(* The key-value cache (core/cache.py).  A key is a tuple: its namespace,  *)
(* then the ids the f-string interpolates.  cache_get answers <<>> for     *)
(* None (miss or no client) and <<v>> for a value.                         *)
(***************************************************************************)
JsonDumps(value) == [json |-> value]
JsonLoads(text) == text.json

CacheGetIgnoresDown(c, up, key) ==
    IF key \in DOMAIN c THEN <<JsonLoads(c[key])>> ELSE <<>>

CacheGet(c, up, key) ==
    IF ~up THEN <<>>
    ELSE IF key \in DOMAIN c THEN <<JsonLoads(c[key])>> ELSE <<>>

CacheSet(c, up, key, value) ==
    IF ~up THEN c
    ELSE [k \in DOMAIN c \cup {key} |->
            IF k = key THEN JsonDumps(value) ELSE c[k]]

CacheDeleteSkipped(c, up, key) == c

CacheDelete(c, up, key) ==
    IF ~up THEN c ELSE [k \in DOMAIN c \ {key} |-> c[k]]

ScanMatchNothing(c, up, namespace) == {}

\* scan_iter(match="<namespace>:*"): the keys of the namespace now present
ScanMatch(c, up, namespace) ==
    IF ~up THEN {} ELSE {k \in DOMAIN c : k[1] = namespace}

EmptyCache == [k \in {} |-> JsonDumps(0)]

\* what each cache function returns to its caller (up is false when there
\* is no client or the call to the client raises); arg is the key, or the
\* namespace of the pattern
CacheReturn(fn, c, up, arg) ==
    IF fn = "cache_get" THEN CacheGet(c, up, arg)
    ELSE IF fn = "cache_exists" THEN up /\ arg \in DOMAIN c
    ELSE IF fn = "cache_delete_pattern"
         THEN Cardinality(ScanMatch(c, up, arg))
    ELSE up

(***************************************************************************)
(* Rows.                                                                   *)
(***************************************************************************)
NewEnrollment(s, c) ==
    [student_id |-> s, course_id |-> c, status |-> "active",
     started_at |-> None, completed_at |-> None, dropped_at |-> None,
     last_accessed_at |-> None]

\* an ORM object: the row as loaded, with its primary key (None: no object)
Loaded(table, id) == [k \in DOMAIN table[id] \cup {"id"} |->
                        IF k = "id" THEN id ELSE table[id][k]]
NoObject == [id |-> None]

TimestampColumns == {"started_at", "completed_at", "dropped_at",
                     "last_accessed_at", "published_at", "updated_at"}

\* result.scalars().first() of a SELECT: the first matching row id, or None
First(ids) == IF ids = {} THEN None ELSE CHOOSE i \in ids : \A j \in ids : i <= j

\* SELECT ... FROM enrollments WHERE student_id = s AND course_id = c
FindEnrollment(E, s, c) ==
    First({i \in DOMAIN E : E[i].student_id = s /\ E[i].course_id = c})

\* SELECT ... FROM progress WHERE user_id = u AND course_id = c, as pairs
FindProgress(P, u, c) ==
    {<<P[n].item_type, P[n].item_id>> :
        n \in {m \in DOMAIN P : P[m].user_id = u /\ P[m].course_id = c}}

\* SELECT ... FROM certificates WHERE enrollment_id = eid
FindCertificate(C, eid) == First({i \in DOMAIN C : C[i].enrollment_id = eid})

\* EnrollmentRepository.get_by_student_and_course: the row id, or None
GetByStudentAndCourse(s, c) == FindEnrollment(enrollments, s, c)

\* ProgressRepository.get_by_user_and_item: the row id, or None
GetByUserAndItem(u, t, i) ==
    First({n \in DOMAIN progress :
                /\ progress[n].user_id = u
                /\ progress[n].item_type = t
                /\ progress[n].item_id = i})

\* ProgressRepository.get_user_course_progress: the rows, as (type, id) pairs
GetUserCourseProgress(u, c) == FindProgress(progress, u, c)

\* CertificateRepository.get_by_enrollment: the row id, or None
GetCertByEnrollment(eid) == FindCertificate(certificates, eid)

\* the status test of mark_completed and get_course_progress
StatusAllowsProgressLoose(status) ==
    status \in {"active", "completed", "dropped"}

StatusAllowsProgress(status) == status \in {"active", "completed"}

(***************************************************************************)
(* CourseProgressSummary: pydantic validates the keyword arguments; a      *)
(* required field that is not passed raises ValidationError, which is a    *)
(* ValueError.                                                             *)
(***************************************************************************)
SummaryFields ==
    {"course_id", "user_id", "enrollment_id", "total_items", "completed_items",
     "completion_percentage", "completed_lessons", "completed_quizzes",
     "completed_summaries", "has_certificate", "is_complete"}

CourseProgressSummary(kwargs) ==
    IF SummaryFields \subseteq DOMAIN kwargs
    THEN [ok |-> TRUE, value |-> <<kwargs>>]
    ELSE [ok |-> FALSE, value |-> <<>>]

\* the keyword arguments get_course_progress passes (lines 95-106)
SummaryKwargs(u, c, active_items, completed, has_certificate) ==
    LET total_items == Len(active_items)
        completed_count ==
            Cardinality({n \in 1..Len(active_items) :
                <<active_items[n].type, active_items[n].id>> \in completed})
        percentage == Percentage(completed_count, total_items)
    IN [course_id |-> c, user_id |-> u,
        total_items |-> total_items,
        completed_items |-> completed_count,
        completion_percentage |-> percentage,
        completed_lessons |-> {x[2] : x \in {y \in completed : y[1] = "lesson"}},
        completed_quizzes |-> {x[2] : x \in {y \in completed : y[1] = "quiz"}},
        completed_summaries |-> {x[2] : x \in {y \in completed : y[1] = "summary"}},
        has_certificate |-> has_certificate,
        is_complete |-> percentage >= 10000]

(***************************************************************************)
(* Request handlers.                                                       *)
(***************************************************************************)
NoCall == [id |-> 0, op |-> "none"]
Last(s) == s[Len(s)]

LocInit ==
    [enr |-> NoObject,        \* the session's Enrollment object
     course |-> NoObject,     \* the session's Course object
     cert |-> NoObject,       \* the session's Certificate object
     inserted |-> None,       \* RETURNING id of the progress insert
     result |-> <<>>,         \* the value the handler will return
     upd |-> <<>>,            \* pending BaseRepository.update: <<table, data>>
     cont |-> "idle",         \* where update returns to
     nested |-> FALSE,        \* get_course_progress called by _check_auto_complete
     active_items |-> <<>>,
     completed |-> {},
     keys |-> {},             \* keys scan_iter has yielded, not yet deleted
     items |-> <<>>,
     at |-> <<>>,             \* positions of the module and the lesson found
     resources |-> <<>>,      \* the resources list of the fetched document
     count |-> 0,             \* the enrollment count of the limit check
     flag |-> FALSE,          \* is_enrolled as read from the store
     after_count |-> "idle",  \* where _get_enrollment_count_cached returns to
     hits |-> {},             \* history: namespaces answered from the cache
     mutated |-> FALSE,       \* history: the store mutation of the call happened
     cols |-> {},             \* history: <<table, column>> written by the call
     seen |-> {}]             \* history: calls in flight together with this one

InFlight == {q \in Procs : pc[q] # "idle"}
AllIdle == InFlight = {}

\* what an observer sees of the stores at one moment
ProgressView(E, P, C, D, u, c) ==
    LET eid == FindEnrollment(E, u, c)
        items == GetActiveItems(D[c])
        done == FindProgress(P, u, c)
    IN [enr |-> IF eid = None THEN NoObject ELSE Loaded(E, eid),
        total |-> Len(items),
        done |-> Cardinality({n \in 1..Len(items) :
                                <<items[n].type, items[n].id>> \in done}),
        full |-> /\ Len(items) > 0
                 /\ \A n \in 1..Len(items) : <<items[n].type, items[n].id>> \in done,
        cert |-> IF eid = None THEN FALSE ELSE FindCertificate(C, eid) # None]

CourseView(T, K) ==
    [rows |-> T,
     detail |-> [k \in {x \in DOMAIN K : x[1] = "course:detail"} |-> JsonLoads(K[k])],
     pages |-> [k \in {x \in DOMAIN K : x[1] = "course:published"} |-> JsonLoads(K[k])]]

\* the enrollment rows, the courses and the whole cache
EnrollView(E, T, K) == [rows |-> E, courses |-> T, cache |-> K]

EnrollmentOps == {"enroll_student", "drop_enrollment", "undrop_enrollment"}
\* the enrollment rows and the certificates
CertView(E, C) == [rows |-> E, certs |-> C]

View(c, E, P, C, D, T, K) ==
    IF c.op \in {"mark_completed", "get_course_progress"}
    THEN ProgressView(E, P, C, D, c.user_id, c.course_id)
    ELSE IF c.op \in EnrollmentOps THEN EnrollView(E, T, K)
    ELSE IF c.op \in {"update_lesson", "add_resource", "update_resource",
                      "delete_resource", "delete_module", "delete_lesson",
                      "create_or_update_content"}
         THEN D[c.course_id]
    ELSE IF c.op \in {"issue_certificate", "revoke_certificate",
                      "verify_certificate", "get_certificate"}
         THEN CertView(E, C)
    ELSE CourseView(T, K)

\* a handler slot is free and the request budget is not used up; requests
\* are assigned to the lowest free slot (slots are interchangeable)
CanStart(p) ==
    /\ pc[p] = "idle"
    /\ clock < MaxCalls
    /\ \A q \in Procs : q < p => pc[q] # "idle"

Begin(p, label, args) ==
    /\ CanStart(p)
    /\ clock' = clock + 1
    /\ pc' = [pc EXCEPT ![p] = label]
    /\ call' = [call EXCEPT ![p] =
                  [before |-> View(args, enrollments, progress, certificates,
                                   content, courses, cache),
                   up |-> redisUp] @@ args]
    /\ loc' = [q \in Procs |->
                IF q = p
                THEN [LocInit EXCEPT !.seen = {call[r].id : r \in InFlight}]
                ELSE IF q \in InFlight
                     THEN [loc[q] EXCEPT !.seen = @ \cup {clock + 1}]
                     ELSE loc[q]]

\* the response is sent: outcome is "ok" or the error raised
Respond(p, outcome, ret, l) ==
    /\ pc' = [pc EXCEPT ![p] = "idle"]
    /\ call' = [call EXCEPT ![p] = NoCall]
    /\ loc' = [loc EXCEPT ![p] = LocInit]
    /\ log' = Append(log, [call |-> call[p], outcome |-> outcome, ret |-> ret,
                           cols |-> l.cols, mutated |-> l.mutated,
                           seen |-> l.seen, hits |-> l.hits,
                           after |-> View(call[p], enrollments', progress',
                                          certificates', content', courses',
                                          cache')])

Goto(p, label, l) ==
    /\ pc' = [pc EXCEPT ![p] = label]
    /\ loc' = [loc EXCEPT ![p] = l]
    /\ UNCHANGED <<call, log>>

Stores == <<enrollments, progress, certificates, content, courses>>


(***************************************************************************)
(* BaseRepository.update(id, obj_in).  get_by_id finds the object the      *)
(* session already holds (the caller loaded it, and the session does not   *)
(* expire objects on commit), so the attributes are set on that object and *)
(* commit writes the columns whose value changed; refresh then reloads the *)
(* object from the row.                                                    *)
(***************************************************************************)
ChangedColumns(obj, data) ==
    {k \in DOMAIN data :
        \/ (k \in TimestampColumns /\ data[k] # None)
        \/ data[k] # obj[k]}

WriteRow(row, data, changed) ==
    [k \in DOMAIN row |-> IF k \in changed THEN data[k] ELSE row[k]]

RepoUpdate(p) ==
    /\ pc[p] = "repo_update"
    /\ LET table == loc[p].upd[1]
           data == loc[p].upd[2]
           obj == IF table = "enrollments" THEN loc[p].enr ELSE loc[p].course
           changed == ChangedColumns(obj, data)
           l == [loc[p] EXCEPT !.cols = @ \cup {<<table, k>> : k \in changed},
                               !.mutated = TRUE]
       IN /\ IF table = "enrollments"
             THEN /\ enrollments' = [enrollments EXCEPT ![obj.id] =
                                        WriteRow(@, data, changed)]
                  /\ UNCHANGED courses
             ELSE /\ courses' = [courses EXCEPT ![obj.id] =
                        WriteRow(@, [updated_at |-> Now] @@ data,
                                 IF changed = {} THEN {}
                                 ELSE changed \cup {"updated_at"})]
                  /\ UNCHANGED enrollments
          /\ UNCHANGED <<progress, certificates, content, cache, redisUp, clock>>
          /\ Goto(p, "repo_refresh", l)

RepoRefresh(p) ==
    /\ pc[p] = "repo_refresh"
    /\ UNCHANGED <<Stores, cache, redisUp, clock>>
    /\ LET table == loc[p].upd[1]
           l == IF table = "enrollments"
                THEN [loc[p] EXCEPT !.enr = Loaded(enrollments, @.id),
                                    !.upd = <<>>]
                ELSE [loc[p] EXCEPT !.course = Loaded(courses, @.id),
                                    !.upd = <<>>]
       IN IF loc[p].cont = "return"
          THEN Respond(p, "ok", loc[p].result, l)
          ELSE Goto(p, loc[p].cont, l)

(***************************************************************************)
(* ProgressService.mark_completed                                          *)
(***************************************************************************)
StartMarkCompleted(p, u, c, t, i) ==
    /\ Begin(p, "mc_load",
             [id |-> clock + 1, op |-> "mark_completed", user_id |-> u,
              course_id |-> c, item_type |-> t, item_id |-> i])
    /\ UNCHANGED <<Stores, cache, redisUp, log>>

\* lines 31-37: load the enrollment, raise ValueError unless it allows progress
MarkLoad(p) ==
    /\ pc[p] = "mc_load"
    /\ UNCHANGED <<Stores, cache, redisUp, clock>>
    /\ LET eid == GetByStudentAndCourse(call[p].user_id, call[p].course_id)
       IN IF eid = None
          THEN Respond(p, "not_enrolled", <<>>, loc[p])
          ELSE IF ~StatusAllowsProgress(enrollments[eid].status)
               THEN Respond(p, "not_active", <<>>, loc[p])
               ELSE Goto(p, "mc_insert",
                         [loc[p] EXCEPT !.enr = Loaded(enrollments, eid)])

\* ProgressRepository.mark_completed, lines 25-40: INSERT ... ON CONFLICT
\* (user_id, item_type, item_id) DO NOTHING RETURNING id, committed
MarkInsert(p) ==
    /\ pc[p] = "mc_insert"
    /\ LET c == call[p]
           existing == GetByUserAndItem(c.user_id, c.item_type, c.item_id)
       IN IF existing = None
          THEN /\ progress' = Append(progress,
                     [user_id |-> c.user_id, course_id |-> c.course_id,
                      item_type |-> c.item_type, item_id |-> c.item_id,
                      completed_at |-> Now])
               /\ Goto(p, "mc_fetch",
                       [loc[p] EXCEPT !.inserted = Len(progress) + 1,
                                      !.mutated = TRUE,
                                      !.cols = @ \cup {<<"progress", "insert">>}])
          ELSE /\ UNCHANGED progress
               /\ Goto(p, "mc_fetch", [loc[p] EXCEPT !.inserted = None])
    /\ UNCHANGED <<enrollments, certificates, content, courses, cache, redisUp,
                   clock>>

\* lines 42-47 of the repository (fetch the record), then lines 46-49 of the
\* service: the update of last_accessed_at and, if unset, started_at
MarkFetch(p) ==
    /\ pc[p] = "mc_fetch"
    /\ UNCHANGED <<Stores, cache, redisUp, clock>>
    /\ LET c == call[p]
           id == IF loc[p].inserted # None THEN loc[p].inserted
                 ELSE GetByUserAndItem(c.user_id, c.item_type, c.item_id)
           data == IF loc[p].enr.started_at = None
                   THEN [last_accessed_at |-> Now, started_at |-> Now]
                   ELSE [last_accessed_at |-> Now]
       IN Goto(p, "repo_update",
               [loc[p] EXCEPT !.result = IF id = None THEN <<>>
                                         ELSE <<Loaded(progress, id)>>,
                              !.upd = <<"enrollments", data>>,
                              !.cont = "gp_load",
                              !.nested = TRUE])

(***************************************************************************)
(* ProgressService.get_course_progress, called by the API or by            *)
(* _check_auto_complete (nested).                                          *)
(***************************************************************************)
StartGetCourseProgress(p, u, c) ==
    /\ Begin(p, "gp_load",
             [id |-> clock + 1, op |-> "get_course_progress", user_id |-> u,
              course_id |-> c])
    /\ UNCHANGED <<Stores, cache, redisUp, log>>

\* lines 61-67 (the second ValueError has its own message); a session that
\* already holds the Enrollment object keeps its attributes (a SELECT does
\* not overwrite an unexpired object)
GpLoad(p) ==
    /\ pc[p] = "gp_load"
    /\ UNCHANGED <<Stores, cache, redisUp, clock>>
    /\ LET eid == GetByStudentAndCourse(call[p].user_id, call[p].course_id)
           obj == IF eid = None THEN NoObject
                  ELSE IF loc[p].enr.id = eid THEN loc[p].enr
                  ELSE Loaded(enrollments, eid)
       IN IF eid = None
          THEN Respond(p, "not_enrolled", <<>>, loc[p])
          ELSE IF ~StatusAllowsProgress(obj.status)
               THEN Respond(p, "not_active_dropped_or_suspended", <<>>, loc[p])
               ELSE Goto(p, "gp_content", [loc[p] EXCEPT !.enr = obj])

\* line 69: _get_active_items reads the content document
GpContent(p) ==
    /\ pc[p] = "gp_content"
    /\ UNCHANGED <<Stores, cache, redisUp, clock>>
    /\ Goto(p, "gp_progress",
            [loc[p] EXCEPT !.active_items = GetActiveItems(content[call[p].course_id])])

\* lines 72-75: the user's progress rows of the course
GpProgress(p) ==
    /\ pc[p] = "gp_progress"
    /\ UNCHANGED <<Stores, cache, redisUp, clock>>
    /\ Goto(p, "gp_cert",
            [loc[p] EXCEPT !.completed =
                GetUserCourseProgress(call[p].user_id, call[p].course_id)])

\* lines 88-106: the certificate lookup and the summary; then, when nested,
\* lines 155-162 of _check_auto_complete
GpCert(p) ==
    /\ pc[p] = "gp_cert"
    /\ UNCHANGED <<Stores, cache, redisUp, clock>>
    /\ LET cert == GetCertByEnrollment(loc[p].enr.id)
           has_certificate == cert # None /\ ~certificates[cert].is_revoked
           summary == CourseProgressSummary(
                        SummaryKwargs(call[p].user_id, call[p].course_id,
                                      loc[p].active_items, loc[p].completed,
                                      has_certificate))
       IN IF ~summary.ok
          THEN Respond(p, "validation_error", <<>>, loc[p])
          ELSE IF ~loc[p].nested
               THEN Respond(p, "ok", summary.value, loc[p])
               ELSE IF /\ summary.value[1].completion_percentage >= 10000
                       /\ ~summary.value[1].has_certificate
                    THEN Goto(p, "repo_update",
                              [loc[p] EXCEPT
                                 !.upd = <<"enrollments",
                                           [status |-> "completed",
                                            completed_at |-> Now]>>,
                                 !.cont = "return"])
                    ELSE Respond(p, "ok", loc[p].result, loc[p])

(***************************************************************************)
(* EnrollmentService.drop_enrollment                                       *)
(***************************************************************************)
StartDropEnrollment(p, eid, u) ==
    /\ Begin(p, "dr_load",
             [id |-> clock + 1, op |-> "drop_enrollment",
              enrollment_id |-> eid, student_id |-> u])
    /\ UNCHANGED <<Stores, cache, redisUp, log>>

\* lines 116-128
DropLoad(p) ==
    /\ pc[p] = "dr_load"
    /\ UNCHANGED <<Stores, cache, redisUp, clock>>
    /\ LET eid == call[p].enrollment_id
       IN IF eid \notin DOMAIN enrollments
          THEN Respond(p, "not_found", <<>>, loc[p])
          ELSE IF enrollments[eid].student_id # call[p].student_id
               THEN Respond(p, "permission_error", <<>>, loc[p])
               ELSE Goto(p, "repo_update",
                         [loc[p] EXCEPT
                            !.enr = Loaded(enrollments, eid),
                            !.upd = <<"enrollments",
                                      [status |-> "dropped",
                                       dropped_at |-> Now]>>,
                            !.cont = "dr_flag"])

\* line 131
DropFlag(p) ==
    /\ pc[p] = "dr_flag"
    /\ cache' = CacheDelete(cache, redisUp,
                  <<"course:enrolled", call[p].student_id, loc[p].enr.course_id>>)
    /\ UNCHANGED <<Stores, redisUp, clock>>
    /\ Goto(p, "dr_count", loc[p])

\* lines 132-134
DropCount(p) ==
    /\ pc[p] = "dr_count"
    /\ cache' = CacheDelete(cache, redisUp,
                  <<"course:enrollment_count", loc[p].enr.course_id>>)
    /\ UNCHANGED <<Stores, redisUp, clock>>
    /\ Respond(p, "ok", <<loc[p].enr>>, loc[p])

(***************************************************************************)
(* CourseContentService.create_or_update_content: the document as the      *)
(* request schema dumps it (module_id, lessons with lesson_id)             *)
(***************************************************************************)
UpsertPool ==
    { Doc(<<>>),
      Doc(<<Module(1, <<Lesson(1), Lesson(2)>>)>>) }

StartUpsertContent(p, c, doc) ==
    /\ Begin(p, "uc_upsert",
             [id |-> clock + 1, op |-> "create_or_update_content",
              course_id |-> c, doc |-> doc])
    /\ UNCHANGED <<Stores, cache, redisUp, log>>

\* line 62: find_one_and_update(..., upsert=True)
UpsertWrite(p) ==
    /\ pc[p] = "uc_upsert"
    /\ content' = [content EXCEPT ![call[p].course_id] = call[p].doc]
    /\ UNCHANGED <<enrollments, progress, certificates, courses, cache, redisUp,
                   clock>>
    /\ Goto(p, "uc_inval", [loc[p] EXCEPT !.mutated = TRUE])

\* line 65
UpsertInvalidate(p) ==
    /\ pc[p] = "uc_inval"
    /\ cache' = CacheDelete(cache, redisUp, <<"course:content", call[p].course_id>>)
    /\ UNCHANGED <<Stores, redisUp, clock>>
    /\ Respond(p, "ok", <<call[p].doc>>, loc[p])

(***************************************************************************)
(* The progress engine with its neighbours: the enrollments exist (made by *)
(* enroll), nothing is completed yet.                                      *)
(***************************************************************************)
RECURSIVE EnrollmentsOf(_, _)
EnrollmentsOf(students, c) ==
    IF students = {} THEN <<>>
    ELSE LET s == CHOOSE x \in students : \A y \in students : x <= y
         IN <<NewEnrollment(s, c)>> \o EnrollmentsOf(students \ {s}, c)

InitHandlers ==
    /\ clock = 0
    /\ pc = [p \in Procs |-> "idle"]
    /\ call = [p \in Procs |-> NoCall]
    /\ loc = [p \in Procs |-> LocInit]
    /\ log = <<>>

InitProgress ==
    /\ enrollments \in {EnrollmentsOf(S, 1) : S \in SUBSET Users}
    /\ progress = <<>>
    /\ certificates = <<>>
    /\ content \in [ProgressCourses -> ContentPool]
    /\ courses = <<>>
    /\ cache = EmptyCache
    /\ redisUp = TRUE
    /\ InitHandlers

ProgressStart(p) ==
    \/ \E u \in Users, c \in ProgressCourses, ti \in MarkPool :
          StartMarkCompleted(p, u, c, ti[1], ti[2])
    \/ \E u \in Users, c \in ProgressCourses : StartGetCourseProgress(p, u, c)
    \/ \E eid \in DOMAIN enrollments, u \in Users : StartDropEnrollment(p, eid, u)
    \/ \E c \in ProgressCourses, doc \in UpsertPool : StartUpsertContent(p, c, doc)

ProgressStep(p) ==
    \/ MarkLoad(p)
    \/ MarkInsert(p)
    \/ MarkFetch(p)
    \/ RepoUpdate(p)
    \/ RepoRefresh(p)
    \/ GpLoad(p)
    \/ GpContent(p)
    \/ GpProgress(p)
    \/ GpCert(p)
    \/ DropLoad(p)
    \/ DropFlag(p)
    \/ DropCount(p)
    \/ UpsertWrite(p)
    \/ UpsertInvalidate(p)

NextProgress ==
    \E p \in Procs : (clock < MaxRacing /\ ProgressStart(p)) \/ ProgressStep(p)

\* one request at a time
NextProgressSeq == \E p \in Procs : (AllIdle /\ ProgressStart(p)) \/ ProgressStep(p)

SpecProgress == InitProgress /\ [][NextProgress]_vars
SpecProgressSeq == InitProgress /\ [][NextProgressSeq]_vars


(***************************************************************************)
(* Courses (models/course.py) and CourseResponse (schemas/course.py).      *)
(***************************************************************************)
Instructors == {1, 2}
Titles == {"a", "b"}
Slugs == {"s1", "s2"}
CourseIds == {1, 2}
\* the (skip, limit) pairs requests name
PagePool == {<<0, 2>>, <<1, 1>>}

CourseRow(title, slug, instructor_id, status, published_at) ==
    [title |-> title, slug |-> slug, instructor_id |-> instructor_id,
     status |-> status, published_at |-> published_at, max_students |-> None,
     is_deleted |-> FALSE, created_at |-> 1, updated_at |-> 1]

\* datetime as model_dump(mode="json") writes it: the ISO 8601 text
IsoFormat(t) == IF t = None THEN <<>> ELSE <<"iso", t>>

\* _course_to_dict: CourseResponse.model_validate(course).model_dump(mode="json")
CourseToDict(course) ==
    [k \in DOMAIN course |->
        IF k \in TimestampColumns \cup {"created_at"}
        THEN IsoFormat(course[k]) ELSE course[k]]

\* WHERE status = 'published' AND is_deleted = false
PublishedIds(T) ==
    {i \in DOMAIN T : T[i].status = "published" /\ ~T[i].is_deleted}

\* ORDER BY published_at DESC (rows of equal published_at in id order)
RECURSIVE OrderByPublishedAtDesc(_, _)
OrderByPublishedAtDesc(T, ids) ==
    IF ids = {} THEN <<>>
    ELSE LET top == CHOOSE i \in ids : \A j \in ids :
                        \/ T[i].published_at > T[j].published_at
                        \/ (T[i].published_at = T[j].published_at /\ i <= j)
         IN <<top>> \o OrderByPublishedAtDesc(T, ids \ {top})

\* OFFSET skip LIMIT limit
OffsetLimit(s, skip, limit) ==
    SubSeq(s, skip + 1, IF skip + limit < Len(s) THEN skip + limit ELSE Len(s))

\* CourseRepository.get_published: the objects, in order
GetPublished(T, skip, limit) ==
    LET ids == OffsetLimit(OrderByPublishedAtDesc(T, PublishedIds(T)), skip, limit)
    IN [n \in DOMAIN ids |-> Loaded(T, ids[n])]

\* CourseRepository.count_published
CountPublished(T) == Cardinality(PublishedIds(T))

\* CourseRepository.get_by_slug: the row id, or None
GetBySlug(T, slug) ==
    First({i \in DOMAIN T : T[i].slug = slug /\ ~T[i].is_deleted})

(***************************************************************************)
(* CourseService.get_course                                                *)
(***************************************************************************)
StartGetCourse(p, id) ==
    /\ Begin(p, "gc_cache", [id |-> clock + 1, op |-> "get_course", course_id |-> id])
    /\ UNCHANGED <<Stores, cache, redisUp, log>>

\* lines 42-45
GetCourseCache(p) ==
    /\ pc[p] = "gc_cache"
    /\ UNCHANGED <<Stores, cache, redisUp, clock>>
    /\ LET cached == CacheGet(cache, redisUp, <<"course:detail", call[p].course_id>>)
       IN IF cached # <<>>
          THEN Respond(p, "ok", cached, loc[p])
          ELSE Goto(p, "gc_db", loc[p])

\* lines 48-54
GetCourseDb(p) ==
    /\ pc[p] = "gc_db"
    /\ UNCHANGED <<Stores, cache, redisUp, clock>>
    /\ LET id == call[p].course_id
       IN IF id \notin DOMAIN courses \/ courses[id].is_deleted
          THEN Respond(p, "not_found", <<>>, loc[p])
          ELSE Goto(p, "gc_set",
                    [loc[p] EXCEPT !.course = Loaded(courses, id),
                                   !.result = <<CourseToDict(Loaded(courses, id))>>])

\* lines 55-56
GetCourseSet(p) ==
    /\ pc[p] = "gc_set"
    /\ cache' = CacheSet(cache, redisUp, <<"course:detail", call[p].course_id>>,
                         loc[p].result[1])
    /\ UNCHANGED <<Stores, redisUp, clock>>
    /\ Respond(p, "ok", loc[p].result, loc[p])

(***************************************************************************)
(* CourseService.list_published_courses                                    *)
(***************************************************************************)
StartListPublished(p, skip, limit) ==
    /\ Begin(p, "lp_cache", [id |-> clock + 1, op |-> "list_published_courses",
                             skip |-> skip, limit |-> limit])
    /\ UNCHANGED <<Stores, cache, redisUp, log>>

\* lines 73-76
ListCache(p) ==
    /\ pc[p] = "lp_cache"
    /\ UNCHANGED <<Stores, cache, redisUp, clock>>
    /\ LET cached == CacheGet(cache, redisUp,
                              <<"course:published", call[p].skip, call[p].limit>>)
       IN IF cached # <<>>
          THEN Respond(p, "ok", cached, loc[p])
          ELSE Goto(p, "lp_db", loc[p])

\* line 79
ListDb(p) ==
    /\ pc[p] = "lp_db"
    /\ UNCHANGED <<Stores, cache, redisUp, clock>>
    /\ Goto(p, "lp_count",
            [loc[p] EXCEPT !.items = GetPublished(courses, call[p].skip, call[p].limit)])

\* lines 80-83
ListCount(p) ==
    /\ pc[p] = "lp_count"
    /\ UNCHANGED <<Stores, cache, redisUp, clock>>
    /\ Goto(p, "lp_set",
            [loc[p] EXCEPT !.result =
                <<[items |-> [n \in DOMAIN loc[p].items |-> CourseToDict(loc[p].items[n])],
                   total |-> CountPublished(courses)]>>])

\* lines 84-86
ListSet(p) ==
    /\ pc[p] = "lp_set"
    /\ cache' = CacheSet(cache, redisUp,
                         <<"course:published", call[p].skip, call[p].limit>>,
                         loc[p].result[1])
    /\ UNCHANGED <<Stores, redisUp, clock>>
    /\ Respond(p, "ok", loc[p].result, loc[p])

(***************************************************************************)
(* CourseService.create_course                                             *)
(***************************************************************************)
StartCreateCourse(p, title, slug, instructor_id) ==
    /\ Begin(p, "cr_slug", [id |-> clock + 1, op |-> "create_course",
                            title |-> title, slug |-> slug,
                            instructor_id |-> instructor_id])
    /\ UNCHANGED <<Stores, cache, redisUp, log>>

\* lines 106-115
CreateSlugCheck(p) ==
    /\ pc[p] = "cr_slug"
    /\ UNCHANGED <<Stores, cache, redisUp, clock>>
    /\ IF GetBySlug(courses, call[p].slug) # None
       THEN Respond(p, "slug_taken", <<>>, loc[p])
       ELSE Goto(p, "cr_insert", loc[p])

\* lines 117-118: BaseRepository.create (INSERT, commit, refresh of the new
\* row); the unique index on slug covers the soft-deleted rows too
CreateInsert(p) ==
    /\ pc[p] = "cr_insert"
    /\ UNCHANGED <<enrollments, progress, certificates, content, cache, redisUp,
                   clock>>
    /\ IF \E i \in DOMAIN courses : courses[i].slug = call[p].slug
       THEN /\ UNCHANGED courses
            /\ Respond(p, "integrity_error", <<>>, loc[p])
       ELSE LET row == [CourseRow(call[p].title, call[p].slug,
                                  call[p].instructor_id, "draft", None)
                           EXCEPT !.created_at = Now, !.updated_at = Now]
                id == Len(courses) + 1
            IN /\ courses' = Append(courses, row)
               /\ Respond(p, "ok",
                          <<CourseToDict([id |-> id] @@ row)>>,
                          [loc[p] EXCEPT
                             !.mutated = TRUE,
                             !.cols = @ \cup {<<"courses", "insert">>}])

(***************************************************************************)
(* CourseService.update_course, update_status, delete_course: the load and *)
(* the checks, BaseRepository.update, then the invalidation                *)
(***************************************************************************)
\* the CourseUpdate bodies requests carry (exclude_unset: the fields sent)
UpdatePool == {[title |-> "b"], [title |-> "a", max_students |-> 1]}
CourseStatuses == {"draft", "published", "archived"}

StartUpdateCourse(p, id, data, instructor_id) ==
    /\ Begin(p, "up_load", [id |-> clock + 1, op |-> "update_course",
                            course_id |-> id, data |-> data,
                            instructor_id |-> instructor_id])
    /\ UNCHANGED <<Stores, cache, redisUp, log>>

StartUpdateStatus(p, id, status, instructor_id) ==
    /\ Begin(p, "st_load", [id |-> clock + 1, op |-> "update_status",
                            course_id |-> id, status |-> status,
                            instructor_id |-> instructor_id])
    /\ UNCHANGED <<Stores, cache, redisUp, log>>

StartDeleteCourse(p, id, instructor_id) ==
    /\ Begin(p, "de_load", [id |-> clock + 1, op |-> "delete_course",
                            course_id |-> id, instructor_id |-> instructor_id])
    /\ UNCHANGED <<Stores, cache, redisUp, log>>

LoadOwnedUnchecked(p, update_data) ==
    LET id == call[p].course_id
    IN IF id \notin DOMAIN courses \/ courses[id].is_deleted
       THEN Respond(p, "not_found", <<>>, loc[p])
       ELSE Goto(p, "repo_update",
                 [loc[p] EXCEPT !.course = Loaded(courses, id),
                                !.upd = <<"courses", update_data>>,
                                !.cont = "inv_detail"])

\* get_by_id, then "if not course or course.is_deleted" and the ownership
\* test: lines 126-130, 152-156, 172-176
LoadOwned(p, update_data) ==
    LET id == call[p].course_id
    IN IF id \notin DOMAIN courses \/ courses[id].is_deleted
       THEN Respond(p, "not_found", <<>>, loc[p])
       ELSE IF courses[id].instructor_id # call[p].instructor_id
            THEN Respond(p, "permission_error", <<>>, loc[p])
            ELSE Goto(p, "repo_update",
                      [loc[p] EXCEPT !.course = Loaded(courses, id),
                                     !.upd = <<"courses", update_data>>,
                                     !.cont = "inv_detail"])

\* lines 126-138
UpdateLoad(p) ==
    /\ pc[p] = "up_load"
    /\ UNCHANGED <<Stores, cache, redisUp, clock>>
    /\ LoadOwned(p, call[p].data)

\* lines 152-162
StatusLoad(p) ==
    /\ pc[p] = "st_load"
    /\ UNCHANGED <<Stores, cache, redisUp, clock>>
    /\ LET id == call[p].course_id
           publishing == /\ id \in DOMAIN courses
                         /\ call[p].status = "published"
                         /\ courses[id].status # "published"
       IN LoadOwned(p, IF publishing
                       THEN [status |-> call[p].status, published_at |-> Now]
                       ELSE [status |-> call[p].status])

\* lines 172-178: soft_delete is update(id, {"is_deleted": True})
DeleteLoad(p) ==
    /\ pc[p] = "de_load"
    /\ UNCHANGED <<Stores, cache, redisUp, clock>>
    /\ LoadOwned(p, [is_deleted |-> TRUE])

\* cache_delete(f"course:detail:{course_id}"): lines 141, 165, 181
InvalidateDetail(p) ==
    /\ pc[p] = "inv_detail"
    /\ cache' = CacheDelete(cache, redisUp, <<"course:detail", call[p].course_id>>)
    /\ UNCHANGED <<Stores, redisUp, clock>>
    /\ Goto(p, "inv_scan", loc[p])

\* what update_course and update_status return (lines 144, 168), and
\* delete_course (line 184)
WriteResult(p) ==
    IF call[p].op = "delete_course" THEN <<TRUE>>
    ELSE <<CourseToDict(loc[p].course)>>

\* cache_delete_pattern("course:published:*"): scan_iter yields the keys that
\* match now
InvalidateScan(p) ==
    /\ pc[p] = "inv_scan"
    /\ UNCHANGED <<Stores, cache, redisUp, clock>>
    /\ LET keys == ScanMatch(cache, redisUp, "course:published")
       IN IF keys = {}
          THEN Respond(p, "ok", WriteResult(p), loc[p])
          ELSE Goto(p, "inv_delete", [loc[p] EXCEPT !.keys = keys])

\* ... and each is deleted in turn; after the last one the handler returns
InvalidateDelete(p) ==
    /\ pc[p] = "inv_delete"
    /\ UNCHANGED <<Stores, redisUp, clock>>
    /\ \E key \in loc[p].keys :
          /\ cache' = CacheDelete(cache, redisUp, key)
          /\ IF loc[p].keys = {key}
             THEN Respond(p, "ok", WriteResult(p), loc[p])
             ELSE Goto(p, "inv_delete", [loc[p] EXCEPT !.keys = @ \ {key}])

(***************************************************************************)
(* The course catalogue with its cache.  At start-up the cache is empty;   *)
(* the client is there or connect_redis failed.                            *)
(***************************************************************************)
CoursePool ==
    { <<CourseRow("a", "s1", 1, "draft", None)>>,
      <<CourseRow("a", "s1", 1, "published", 1)>>,
      <<CourseRow("a", "s1", 1, "published", 1),
        CourseRow("a", "s2", 2, "published", 1)>> }

InitCourse ==
    /\ enrollments = <<>>
    /\ progress = <<>>
    /\ certificates = <<>>
    /\ content = [c \in ProgressCourses |-> NoDoc]
    /\ courses \in CoursePool
    /\ cache = EmptyCache
    /\ redisUp \in BOOLEAN
    /\ InitHandlers

CourseStart(p) ==
    \/ \E id \in CourseIds : StartGetCourse(p, id)
    \/ \E pg \in PagePool : StartListPublished(p, pg[1], pg[2])
    \/ \E t \in Titles, s \in Slugs, i \in Instructors : StartCreateCourse(p, t, s, i)
    \/ \E id \in CourseIds, d \in UpdatePool, i \in Instructors :
          StartUpdateCourse(p, id, d, i)
    \/ \E id \in CourseIds, st \in CourseStatuses, i \in Instructors :
          StartUpdateStatus(p, id, st, i)
    \/ \E id \in CourseIds, i \in Instructors : StartDeleteCourse(p, id, i)

CourseStep(p) ==
    \/ GetCourseCache(p)
    \/ GetCourseDb(p)
    \/ GetCourseSet(p)
    \/ ListCache(p)
    \/ ListDb(p)
    \/ ListCount(p)
    \/ ListSet(p)
    \/ CreateSlugCheck(p)
    \/ CreateInsert(p)
    \/ UpdateLoad(p)
    \/ StatusLoad(p)
    \/ DeleteLoad(p)
    \/ RepoUpdate(p)
    \/ RepoRefresh(p)
    \/ InvalidateDetail(p)
    \/ InvalidateScan(p)
    \/ InvalidateDelete(p)

NextCourse ==
    \E p \in Procs : (clock < MaxRacing /\ CourseStart(p)) \/ CourseStep(p)

\* one request at a time
NextCourseSeq == \E p \in Procs : (AllIdle /\ CourseStart(p)) \/ CourseStep(p)

SpecCourse == InitCourse /\ [][NextCourse]_vars
SpecCourseSeq == InitCourse /\ [][NextCourseSeq]_vars

(***************************************************************************)
(* EnrollmentService: enroll_student, undrop_enrollment and the cached     *)
(* helpers.                                                                *)
(***************************************************************************)
\* EnrollmentRepository.count_by_course: the rows of the course, whatever
\* their status
CountByCourse(E, c) == Cardinality({i \in DOMAIN E : E[i].course_id = c})

\* EnrollmentRepository.is_enrolled
IsEnrolled(E, s, c) == FindEnrollment(E, s, c) # None

\* "if current_count >= course.max_students"
AtCapacityOffByOne(current_count, max_students) == current_count > max_students

AtCapacity(current_count, max_students) == current_count >= max_students

\* the unique constraint uq_enrollment_student_course
UniqueViolationOff(E, s, c) == FALSE

UniqueViolation(E, s, c) ==
    \E i \in DOMAIN E : E[i].student_id = s /\ E[i].course_id = c

CourseAvailableAnyStatus(T, c) ==
    IF c \notin DOMAIN T \/ T[c].is_deleted THEN "course_not_found" ELSE "ok"

\* the course tests of enroll_student (lines 54-58) and undrop_enrollment
\* (lines 148-152): the error raised, or "ok"
CourseAvailable(T, c) ==
    IF c \notin DOMAIN T \/ T[c].is_deleted THEN "course_not_found"
    ELSE IF T[c].status # "published" THEN "course_not_available"
    ELSE "ok"

\* the course the handler is about
CourseOfCall(p) ==
    IF call[p].op = "enroll_student" THEN call[p].course_id
    ELSE loc[p].enr.course_id

\* lines 63-64 and 155-156, after _get_enrollment_count_cached has returned
LimitCheck(p, current_count, l) ==
    IF AtCapacity(current_count, l.course.max_students)
    THEN Respond(p, "limit_reached", <<>>, l)
    ELSE Goto(p, l.after_count, l)

\* _get_enrollment_count_cached, lines 40-43
CountCache(p) ==
    /\ pc[p] = "cnt_cache"
    /\ UNCHANGED <<Stores, cache, redisUp, clock>>
    /\ LET cached == CacheGet(cache, redisUp,
                              <<"course:enrollment_count", CourseOfCall(p)>>)
       IN IF cached # <<>>
          THEN LimitCheck(p, cached[1],
                          [loc[p] EXCEPT !.hits = @ \cup {"course:enrollment_count"}])
          ELSE Goto(p, "cnt_db", loc[p])

\* line 45
CountDb(p) ==
    /\ pc[p] = "cnt_db"
    /\ UNCHANGED <<Stores, cache, redisUp, clock>>
    /\ Goto(p, "cnt_set",
            [loc[p] EXCEPT !.count = CountByCourse(enrollments, CourseOfCall(p))])

\* lines 46-47
CountSet(p) ==
    /\ pc[p] = "cnt_set"
    /\ cache' = CacheSet(cache, redisUp,
                         <<"course:enrollment_count", CourseOfCall(p)>>,
                         loc[p].count)
    /\ UNCHANGED <<Stores, redisUp, clock>>
    /\ LimitCheck(p, loc[p].count, loc[p])

StartEnrollStudent(p, s, c) ==
    /\ Begin(p, "en_course", [id |-> clock + 1, op |-> "enroll_student",
                              student_id |-> s, course_id |-> c])
    /\ UNCHANGED <<Stores, cache, redisUp, log>>

\* lines 54-61
EnrollCourse(p) ==
    /\ pc[p] = "en_course"
    /\ UNCHANGED <<Stores, cache, redisUp, clock>>
    /\ LET c == call[p].course_id
           verdict == CourseAvailable(courses, c)
       IN IF verdict # "ok"
          THEN Respond(p, verdict, <<>>, loc[p])
          ELSE LET l == [loc[p] EXCEPT !.course = Loaded(courses, c),
                                       !.after_count = "en_flag"]
               IN IF courses[c].max_students # None
                  THEN Goto(p, "cnt_cache", l)
                  ELSE Goto(p, "en_flag", l)

\* _is_enrolled_cached, lines 29-32, then lines 67-68
EnrollFlagCache(p) ==
    /\ pc[p] = "en_flag"
    /\ UNCHANGED <<Stores, cache, redisUp, clock>>
    /\ LET cached == CacheGet(cache, redisUp,
                 <<"course:enrolled", call[p].student_id, call[p].course_id>>)
           l == [loc[p] EXCEPT !.hits = @ \cup {"course:enrolled"}]
       IN IF cached = <<>>
          THEN Goto(p, "en_flag_db", loc[p])
          ELSE IF cached[1]
               THEN Respond(p, "already_enrolled", <<>>, l)
               ELSE Goto(p, "en_insert", l)

\* line 34
EnrollFlagDb(p) ==
    /\ pc[p] = "en_flag_db"
    /\ UNCHANGED <<Stores, cache, redisUp, clock>>
    /\ Goto(p, "en_flag_set",
            [loc[p] EXCEPT !.flag = IsEnrolled(enrollments, call[p].student_id,
                                               call[p].course_id)])

\* lines 35-36, then lines 67-68
EnrollFlagSet(p) ==
    /\ pc[p] = "en_flag_set"
    /\ cache' = CacheSet(cache, redisUp,
                 <<"course:enrolled", call[p].student_id, call[p].course_id>>,
                 loc[p].flag)
    /\ UNCHANGED <<Stores, redisUp, clock>>
    /\ IF loc[p].flag
       THEN Respond(p, "already_enrolled", <<>>, loc[p])
       ELSE Goto(p, "en_insert", loc[p])

\* lines 70-78: BaseRepository.create (INSERT, commit, refresh); the unique
\* constraint makes the commit raise IntegrityError
EnrollInsert(p) ==
    /\ pc[p] = "en_insert"
    /\ UNCHANGED <<progress, certificates, content, courses, cache, redisUp, clock>>
    /\ IF UniqueViolation(enrollments, call[p].student_id, call[p].course_id)
       THEN /\ UNCHANGED enrollments
            /\ Respond(p, "integrity_error", <<>>, loc[p])
       ELSE /\ enrollments' = Append(enrollments,
                                NewEnrollment(call[p].student_id, call[p].course_id))
            /\ Goto(p, "en_set_flag",
                    [loc[p] EXCEPT !.enr = Loaded(enrollments', Len(enrollments) + 1),
                                   !.mutated = TRUE,
                                   !.cols = @ \cup {<<"enrollments", "insert">>}])

\* lines 81-83
EnrollSetFlag(p) ==
    /\ pc[p] = "en_set_flag"
    /\ cache' = CacheSet(cache, redisUp,
                 <<"course:enrolled", call[p].student_id, call[p].course_id>>, TRUE)
    /\ UNCHANGED <<Stores, redisUp, clock>>
    /\ Goto(p, "en_del_count", loc[p])

\* lines 84-86
EnrollDelCount(p) ==
    /\ pc[p] = "en_del_count"
    /\ cache' = CacheDelete(cache, redisUp,
                            <<"course:enrollment_count", call[p].course_id>>)
    /\ UNCHANGED <<Stores, redisUp, clock>>
    /\ Respond(p, "ok", <<loc[p].enr>>, loc[p])


(***************************************************************************)
(* EnrollmentService.undrop_enrollment                                     *)
(***************************************************************************)
StartUndropEnrollment(p, eid, u) ==
    /\ Begin(p, "ud_load", [id |-> clock + 1, op |-> "undrop_enrollment",
                            enrollment_id |-> eid, student_id |-> u])
    /\ UNCHANGED <<Stores, cache, redisUp, log>>

UndropLoadUnchecked(p) ==
    /\ pc[p] = "ud_load"
    /\ UNCHANGED <<Stores, cache, redisUp, clock>>
    /\ LET eid == call[p].enrollment_id
       IN IF eid \notin DOMAIN enrollments
          THEN Respond(p, "not_found", <<>>, loc[p])
          ELSE IF enrollments[eid].status # "dropped"
               THEN Respond(p, "not_dropped", <<>>, loc[p])
               ELSE Goto(p, "ud_course",
                         [loc[p] EXCEPT !.enr = Loaded(enrollments, eid)])

\* lines 140-146
UndropLoad(p) ==
    /\ pc[p] = "ud_load"
    /\ UNCHANGED <<Stores, cache, redisUp, clock>>
    /\ LET eid == call[p].enrollment_id
       IN IF eid \notin DOMAIN enrollments
          THEN Respond(p, "not_found", <<>>, loc[p])
          ELSE IF enrollments[eid].student_id # call[p].student_id
               THEN Respond(p, "permission_error", <<>>, loc[p])
               ELSE IF enrollments[eid].status # "dropped"
                    THEN Respond(p, "not_dropped", <<>>, loc[p])
                    ELSE Goto(p, "ud_course",
                              [loc[p] EXCEPT !.enr = Loaded(enrollments, eid)])

\* lines 148-153; what follows the limit check is the update of lines
\* 158-161
UndropCourse(p) ==
    /\ pc[p] = "ud_course"
    /\ UNCHANGED <<Stores, cache, redisUp, clock>>
    /\ LET c == loc[p].enr.course_id
           verdict == CourseAvailable(courses, c)
       IN IF verdict # "ok"
          THEN Respond(p, verdict, <<>>, loc[p])
          ELSE LET l == [loc[p] EXCEPT
                           !.course = Loaded(courses, c),
                           !.after_count = "repo_update",
                           !.upd = <<"enrollments",
                                     [status |-> "active", dropped_at |-> None]>>,
                           !.cont = "ud_set_flag"]
               IN IF courses[c].max_students # None
                  THEN Goto(p, "cnt_cache", l)
                  ELSE Goto(p, "repo_update", l)

\* lines 163-167
UndropSetFlag(p) ==
    /\ pc[p] = "ud_set_flag"
    /\ cache' = CacheSet(cache, redisUp,
                 <<"course:enrolled", call[p].student_id, loc[p].enr.course_id>>,
                 TRUE)
    /\ UNCHANGED <<Stores, redisUp, clock>>
    /\ Goto(p, "ud_del_count", loc[p])

\* lines 168-170
UndropDelCount(p) ==
    /\ pc[p] = "ud_del_count"
    /\ cache' = CacheDelete(cache, redisUp,
                            <<"course:enrollment_count", loc[p].enr.course_id>>)
    /\ UNCHANGED <<Stores, redisUp, clock>>
    /\ Respond(p, "ok", <<loc[p].enr>>, loc[p])

(***************************************************************************)
(* Enrollment with its cache.  Course 1 exists at start-up, with or        *)
(* without a limit of one student, published or not; some users are        *)
(* enrolled already; the cache is empty.                                   *)
(***************************************************************************)
EnrollCourseIds == {1, 2}

EnrollCoursePool ==
    LET c == CourseRow("a", "s1", 1, "published", 1)
    IN { <<c>>,
         <<[c EXCEPT !.max_students = 1]>>,
         <<[c EXCEPT !.is_deleted = TRUE]>>,
         <<CourseRow("a", "s1", 1, "draft", None)>> }

InitEnroll ==
    /\ enrollments \in {EnrollmentsOf(S, 1) : S \in SUBSET Users}
    /\ progress = <<>>
    /\ certificates = <<>>
    /\ content = [c \in ProgressCourses |-> NoDoc]
    /\ courses \in EnrollCoursePool
    /\ cache = EmptyCache
    /\ redisUp \in BOOLEAN
    /\ InitHandlers

EnrollStart(p) ==
    \/ \E s \in Users, c \in EnrollCourseIds : StartEnrollStudent(p, s, c)
    \/ \E eid \in DOMAIN enrollments, u \in Users : StartDropEnrollment(p, eid, u)
    \/ \E eid \in DOMAIN enrollments, u \in Users : StartUndropEnrollment(p, eid, u)

EnrollStep(p) ==
    \/ EnrollCourse(p)
    \/ CountCache(p)
    \/ CountDb(p)
    \/ CountSet(p)
    \/ EnrollFlagCache(p)
    \/ EnrollFlagDb(p)
    \/ EnrollFlagSet(p)
    \/ EnrollInsert(p)
    \/ EnrollSetFlag(p)
    \/ EnrollDelCount(p)
    \/ DropLoad(p)
    \/ DropFlag(p)
    \/ DropCount(p)
    \/ UndropLoad(p)
    \/ UndropCourse(p)
    \/ UndropSetFlag(p)
    \/ UndropDelCount(p)
    \/ RepoUpdate(p)
    \/ RepoRefresh(p)

NextEnroll ==
    \E p \in Procs : (clock < MaxRacing /\ EnrollStart(p)) \/ EnrollStep(p)

\* one request at a time
NextEnrollSeq == \E p \in Procs : (AllIdle /\ EnrollStart(p)) \/ EnrollStep(p)

SpecEnroll == InitEnroll /\ [][NextEnroll]_vars
SpecEnrollSeq == InitEnroll /\ [][NextEnrollSeq]_vars


(***************************************************************************)
(* Certificates (models/certificate.py).                                   *)
(***************************************************************************)

\* f"SC-{uuid.uuid4().hex[:12].upper()}" and uuid.uuid4().hex[:8].upper():
\* random draws, taken to differ from every value already stored
CertificateNumber(C) == 10 + Len(C) + 1
VerificationCode(C) == 20 + Len(C) + 1

\* cert_data of issue_certificate with the column defaults of the model
NewCertificate(C, eid, grade, user_id, today) ==
    [enrollment_id |-> eid,
     certificate_number |-> CertificateNumber(C),
     issue_date |-> today,
     certificate_url |-> None,
     verification_code |-> VerificationCode(C),
     grade |-> grade,
     issued_by_id |-> user_id,
     is_revoked |-> FALSE,
     revoked_at |-> None,
     revoked_reason |-> None,
     created_at |-> today]

\* the unique index on certificates.enrollment_id
CertUniqueViolationOff(C, eid) == FALSE

CertUniqueViolation(C, eid) == \E i \in DOMAIN C : C[i].enrollment_id = eid

\* CertificateRepository.get_by_verification_code: the row id, or None
GetByVerificationCode(C, code) ==
    First({i \in DOMAIN C : C[i].verification_code = code})

\* the enrollment and role tests of issue_certificate: "ok" or the error
IssueChecksNoOwner(E, eid, user_id, role) ==
    IF eid \notin DOMAIN E THEN "enrollment_not_found"
    ELSE IF E[eid].status # "completed" THEN "not_completed"
    ELSE "ok"

IssueChecks(E, eid, user_id, role) ==
    IF eid \notin DOMAIN E THEN "enrollment_not_found"
    ELSE IF E[eid].status # "completed" THEN "not_completed"
    ELSE IF role \notin {"instructor", "admin"} /\ E[eid].student_id # user_id
         THEN "not_own_enrollment"
    ELSE "ok"

\* CertificateVerifyResponse as the verify endpoint fills it (cert: the
\* loaded row, or NoObject)
VerifyResponseLeaky(cert) ==
    IF cert = NoObject
    THEN [is_valid |-> FALSE, certificate_number |-> None, issue_date |-> None,
          grade |-> None, is_revoked |-> FALSE]
    ELSE [is_valid |-> ~cert.is_revoked,
          certificate_number |-> cert.enrollment_id,
          issue_date |-> cert.issue_date,
          grade |-> cert.grade,
          is_revoked |-> cert.is_revoked]

VerifyResponse(cert) ==
    IF cert = NoObject
    THEN [is_valid |-> FALSE, certificate_number |-> None, issue_date |-> None,
          grade |-> None, is_revoked |-> FALSE]
    ELSE [is_valid |-> ~cert.is_revoked,
          certificate_number |-> cert.certificate_number,
          issue_date |-> cert.issue_date,
          grade |-> cert.grade,
          is_revoked |-> cert.is_revoked]

(***************************************************************************)
(* CertificateService.issue_certificate                                    *)
(***************************************************************************)
StartIssueCertificate(p, eid, user_id, role, grade) ==
    /\ Begin(p, "ic_load",
             [id |-> clock + 1, op |-> "issue_certificate",
              enrollment_id |-> eid, user_id |-> user_id, role |-> role,
              grade |-> grade])
    /\ UNCHANGED <<Stores, cache, redisUp, log>>

\* lines 31-42
IssueLoad(p) ==
    /\ pc[p] = "ic_load"
    /\ UNCHANGED <<Stores, cache, redisUp, clock>>
    /\ LET checks == IssueChecks(enrollments, call[p].enrollment_id,
                                 call[p].user_id, call[p].role)
       IN IF checks # "ok"
          THEN Respond(p, checks, <<>>, loc[p])
          ELSE Goto(p, "ic_existing",
                    [loc[p] EXCEPT !.enr = Loaded(enrollments,
                                                  call[p].enrollment_id)])

\* lines 45-47
IssueExisting(p) ==
    /\ pc[p] = "ic_existing"
    /\ UNCHANGED <<Stores, cache, redisUp, clock>>
    /\ IF GetCertByEnrollment(call[p].enrollment_id) # None
       THEN Respond(p, "already_issued", <<>>, loc[p])
       ELSE Goto(p, "ic_insert", loc[p])

\* lines 49-58: BaseRepository.create (INSERT, commit, refresh); the unique
\* index makes the commit raise IntegrityError
IssueInsert(p) ==
    /\ pc[p] = "ic_insert"
    /\ UNCHANGED <<enrollments, progress, content, courses, cache, redisUp, clock>>
    /\ IF CertUniqueViolation(certificates, call[p].enrollment_id)
       THEN /\ UNCHANGED certificates
            /\ Respond(p, "integrity_error", <<>>, loc[p])
       ELSE /\ certificates' = Append(certificates,
                  NewCertificate(certificates, call[p].enrollment_id,
                                 call[p].grade, call[p].user_id, Now))
            /\ Respond(p, "ok", <<Loaded(certificates', Len(certificates) + 1)>>,
                       [loc[p] EXCEPT !.mutated = TRUE,
                                      !.cols = @ \cup {<<"certificates", "insert">>}])

(***************************************************************************)
(* CertificateService.revoke_certificate                                   *)
(***************************************************************************)
StartRevokeCertificate(p, cid, reason, by) ==
    /\ Begin(p, "rv_load",
             [id |-> clock + 1, op |-> "revoke_certificate",
              certificate_id |-> cid, reason |-> reason, revoked_by_id |-> by])
    /\ UNCHANGED <<Stores, cache, redisUp, log>>

\* lines 94-102: get_by_id, then the values of the update
RevokeLoad(p) ==
    /\ pc[p] = "rv_load"
    /\ UNCHANGED <<Stores, cache, redisUp, clock>>
    /\ IF call[p].certificate_id \notin DOMAIN certificates
       THEN Respond(p, "ok", <<>>, loc[p])
       ELSE Goto(p, "rv_update",
                 [loc[p] EXCEPT
                    !.cert = Loaded(certificates, call[p].certificate_id),
                    !.upd = <<"certificates",
                              [is_revoked |-> TRUE, revoked_at |-> Now,
                               revoked_reason |-> call[p].reason]>>])

\* BaseRepository.update: the attributes are set and committed
RevokeUpdate(p) ==
    /\ pc[p] = "rv_update"
    /\ LET data == loc[p].upd[2]
           changed == ChangedColumns(loc[p].cert, data) \cup {"revoked_at"}
       IN /\ certificates' = [certificates EXCEPT ![loc[p].cert.id] =
                                 WriteRow(@, data, changed)]
          /\ UNCHANGED <<enrollments, progress, content, courses, cache,
                         redisUp, clock>>
          /\ Goto(p, "rv_refresh",
                  [loc[p] EXCEPT !.cols = @ \cup {<<"certificates", k>> : k \in changed},
                                 !.mutated = TRUE])

\* BaseRepository.update: refresh, and the object is returned
RevokeRefresh(p) ==
    /\ pc[p] = "rv_refresh"
    /\ UNCHANGED <<Stores, cache, redisUp, clock>>
    /\ Respond(p, "ok", <<Loaded(certificates, loc[p].cert.id)>>, loc[p])

(***************************************************************************)
(* The public reads of api/certificates.py                                 *)
(***************************************************************************)
StartVerifyCertificate(p, code) ==
    /\ Begin(p, "vf_lookup",
             [id |-> clock + 1, op |-> "verify_certificate", code |-> code])
    /\ UNCHANGED <<Stores, cache, redisUp, log>>

\* verify_certificate, lines 80-90
VerifyLookup(p) ==
    /\ pc[p] = "vf_lookup"
    /\ UNCHANGED <<Stores, cache, redisUp, clock>>
    /\ LET cid == GetByVerificationCode(certificates, call[p].code)
           cert == IF cid = None THEN NoObject ELSE Loaded(certificates, cid)
       IN Respond(p, "ok", <<VerifyResponse(cert)>>, loc[p])

StartGetCertificate(p, cid) ==
    /\ Begin(p, "gc_lookup",
             [id |-> clock + 1, op |-> "get_certificate", certificate_id |-> cid])
    /\ UNCHANGED <<Stores, cache, redisUp, log>>

\* get_certificate, lines 99-103: CertificateResponse has every column
GetCertificateLookup(p) ==
    /\ pc[p] = "gc_lookup"
    /\ UNCHANGED <<Stores, cache, redisUp, clock>>
    /\ IF call[p].certificate_id \notin DOMAIN certificates
       THEN Respond(p, "not_found", <<>>, loc[p])
       ELSE Respond(p, "ok", <<Loaded(certificates, call[p].certificate_id)>>,
                    loc[p])

(***************************************************************************)
(* The certificate endpoints, with enrollments of every status and         *)
(* drop_enrollment beside them.                                            *)
(***************************************************************************)
EnrollmentWith(s, c, st) ==
    [NewEnrollment(s, c) EXCEPT !.status = st,
                                !.completed_at = IF st = "completed" THEN 1 ELSE None,
                                !.dropped_at = IF st = "dropped" THEN 1 ELSE None]

InitCert ==
    /\ enrollments \in {<<EnrollmentWith(1, 1, a), EnrollmentWith(2, 1, "completed")>> :
                           a \in {"active", "completed"}}
    /\ certificates \in {<<>>} \cup
          {<<[NewCertificate(<<>>, 2, None, 2, 1) EXCEPT
                 !.is_revoked = r,
                 !.revoked_at = IF r THEN 1 ELSE None,
                 !.revoked_reason = IF r THEN 1 ELSE None]>> : r \in BOOLEAN}
    /\ progress = <<>>
    /\ content = [c \in ProgressCourses |-> NoDoc]
    /\ courses = <<>>
    /\ cache = EmptyCache
    /\ redisUp = TRUE
    /\ InitHandlers

CertStart(p) ==
    \* the (user id, role) pairs of the gateway headers; an enrollment id
    \* that names no row; grade is optional (1 stands for the letter "A")
    \/ \E eid \in {1, 2, 3}, g \in {None, 1},
          a \in {<<1, "student">>, <<2, "student">>, <<2, "instructor">>,
                 <<2, "admin">>} :
          StartIssueCertificate(p, eid, a[1], a[2], g)
    \* the reason is a text (1 stands for it)
    \/ \E cid \in {1, 2} : StartRevokeCertificate(p, cid, 1, 2)
    \/ \E code \in {21, 29} : StartVerifyCertificate(p, code)
    \/ \E cid \in {1, 2} : StartGetCertificate(p, cid)
    \/ \E u \in Users : StartDropEnrollment(p, 1, u)

CertStep(p) ==
    \/ IssueLoad(p)
    \/ IssueExisting(p)
    \/ IssueInsert(p)
    \/ RevokeLoad(p)
    \/ RevokeUpdate(p)
    \/ RevokeRefresh(p)
    \/ VerifyLookup(p)
    \/ GetCertificateLookup(p)
    \/ DropLoad(p)
    \/ RepoUpdate(p)
    \/ RepoRefresh(p)
    \/ DropFlag(p)
    \/ DropCount(p)

NextCert == \E p \in Procs : (clock < MaxRacing /\ CertStart(p)) \/ CertStep(p)

SpecCert == InitCert /\ [][NextCert]_vars



(***************************************************************************)
(* The service is restarted between requests: connect_redis either gets a  *)
(* client or, when the ping fails, leaves none (core/redis.py).  The       *)
(* entries of the key-value store outlive the restart.                     *)
(***************************************************************************)
ConnectRedis ==
    /\ AllIdle
    /\ redisUp' = ~redisUp
    /\ UNCHANGED <<Stores, cache, clock, pc, call, loc, log>>

\* one request at a time: the enrollment requests and get_course
NextFault ==
    \/ \E p \in Procs :
          \/ AllIdle /\ EnrollStart(p)
          \/ AllIdle /\ \E id \in EnrollCourseIds : StartGetCourse(p, id)
          \/ EnrollStep(p)
          \/ GetCourseCache(p)
          \/ GetCourseDb(p)
          \/ GetCourseSet(p)
    \/ ConnectRedis

SpecFault == InitEnroll /\ [][NextFault]_vars



(***************************************************************************)
(* Locate-then-mutate operations on the course content document            *)
(* (CourseContentRepository / CourseContentService).  Lessons carry a      *)
(* title and a list of resources; positions are counted from 1, so the     *)
(* Python index i is position i + 1.  The document's updated_at is not     *)
(* kept.                                                                   *)
(***************************************************************************)
Resource(u) == [url |-> u]
LessonR(n, t, rs) == [lesson_id |-> n, title |-> t, resources |-> rs]

\* enumerate(nodes) up to the first node whose id field equals id
PosOf(nodes, field, id) ==
    LET S == {n \in DOMAIN nodes : Get(nodes[n], field, None) = id}
    IN IF S = {} THEN None ELSE CHOOSE n \in S : \A k \in S : n <= k

\* the loop over modules and lessons: the first module carrying module_id
\* and, inside that module only, the first lesson carrying lesson_id
Locate(doc, module_id, lesson_id) ==
    LET m == PosOf(doc.modules, "module_id", module_id)
        l == IF m = None THEN None
             ELSE PosOf(Get(doc.modules[m], "lessons", <<>>), "lesson_id",
                        lesson_id)
    IN <<m, l>>

\* list.pop(i) on a list of length n: position removed, or None (IndexError)
PopPosition(n, i) ==
    IF i >= 0 THEN (IF i < n THEN i + 1 ELSE None)
    ELSE (IF n + i >= 0 THEN n + i + 1 ELSE None)

RemoveAt(s, pos) == SubSeq(s, 1, pos - 1) \o SubSeq(s, pos + 1, Len(s))

\* $set of "modules.<m>.lessons.<l>.<k>" for the keys of data
SetLessonFields(doc, at, data) ==
    [doc EXCEPT !.modules[at[1]].lessons[at[2]] = data @@ @]

\* $set of "modules.<m>.lessons.<l>.resources.<i>.<k>": an index equal to
\* the length of the array appends a new element holding only those keys
SetResourceFields(doc, at, i, data) ==
    [doc EXCEPT !.modules[at[1]].lessons[at[2]].resources =
        IF i + 1 <= Len(@) THEN [@ EXCEPT ![i + 1] = data @@ @]
        ELSE Append(@, data)]

\* $push / $set of "modules.<m>.lessons.<l>.resources"
SetResources(doc, at, rs) ==
    [doc EXCEPT !.modules[at[1]].lessons[at[2]].resources = rs]

ResourcesAt(doc, at) ==
    Get(doc.modules[at[1]].lessons[at[2]], "resources", <<>>)

\* the service's "if doc: cache_delete(course:content:<id>)" and the return
ContentInvalidate(p) ==
    /\ pc[p] = "cm_inval"
    /\ cache' = CacheDelete(cache, redisUp, <<"course:content", call[p].course_id>>)
    /\ UNCHANGED <<Stores, redisUp, clock>>
    /\ Respond(p, "ok", loc[p].result, loc[p])

\* find_one, the index loop and the early returns shared by the four
\* repository methods; a None / False result is the API's 404
ContentFind(p, label, next) ==
    /\ pc[p] = label
    /\ UNCHANGED <<Stores, cache, redisUp, clock>>
    /\ LET doc == content[call[p].course_id]
           at == Locate(doc, call[p].module_id, call[p].lesson_id)
       IN IF ~doc.present \/ at[1] = None \/ at[2] = None
          THEN Respond(p, "not_found", <<>>, loc[p])
          ELSE Goto(p, next, [loc[p] EXCEPT !.at = at])

(***************************************************************************)
(* update_lesson                                                           *)
(***************************************************************************)
StartUpdateLesson(p, c, m, l, t) ==
    /\ Begin(p, "ul_find",
             [id |-> clock + 1, op |-> "update_lesson", course_id |-> c,
              module_id |-> m, lesson_id |-> l, data |-> [title |-> t]])
    /\ UNCHANGED <<Stores, cache, redisUp, log>>

UlFind(p) == ContentFind(p, "ul_find", "ul_write")

\* find_one_and_update({"course_id": ...}, {"$set": set_fields})
UlWrite(p) ==
    /\ pc[p] = "ul_write"
    /\ LET c == call[p].course_id
           doc == SetLessonFields(content[c], loc[p].at, call[p].data)
       IN /\ content' = [content EXCEPT ![c] = doc]
          /\ Goto(p, "cm_inval", [loc[p] EXCEPT !.result = <<doc>>,
                                                !.mutated = TRUE])
    /\ UNCHANGED <<enrollments, progress, certificates, courses, cache, redisUp,
                   clock>>

(***************************************************************************)
(* add_resource                                                            *)
(***************************************************************************)
StartAddResource(p, c, m, l, u) ==
    /\ Begin(p, "ar_find",
             [id |-> clock + 1, op |-> "add_resource", course_id |-> c,
              module_id |-> m, lesson_id |-> l, data |-> Resource(u)])
    /\ UNCHANGED <<Stores, cache, redisUp, log>>

ArFind(p) == ContentFind(p, "ar_find", "ar_write")

\* find_one_and_update with $push on the resources of the indexed lesson
ArWrite(p) ==
    /\ pc[p] = "ar_write"
    /\ LET c == call[p].course_id
           at == loc[p].at
           doc == SetResources(content[c], at,
                               Append(ResourcesAt(content[c], at), call[p].data))
       IN /\ content' = [content EXCEPT ![c] = doc]
          /\ Goto(p, "cm_inval", [loc[p] EXCEPT !.result = <<doc>>,
                                                !.mutated = TRUE])
    /\ UNCHANGED <<enrollments, progress, certificates, courses, cache, redisUp,
                   clock>>

(***************************************************************************)
(* update_resource                                                         *)
(***************************************************************************)
StartUpdateResource(p, c, m, l, i, u) ==
    /\ Begin(p, "ur_find",
             [id |-> clock + 1, op |-> "update_resource", course_id |-> c,
              module_id |-> m, lesson_id |-> l, resource_index |-> i,
              data |-> Resource(u)])
    /\ UNCHANGED <<Stores, cache, redisUp, log>>

\* the index test inside the loop is "resource_index >= len(resources)" only
UrFind(p) ==
    /\ pc[p] = "ur_find"
    /\ UNCHANGED <<Stores, cache, redisUp, clock>>
    /\ LET doc == content[call[p].course_id]
           at == Locate(doc, call[p].module_id, call[p].lesson_id)
       IN IF ~doc.present \/ at[1] = None \/ at[2] = None
          THEN Respond(p, "not_found", <<>>, loc[p])
          ELSE IF call[p].resource_index >= Len(ResourcesAt(doc, at))
          THEN Respond(p, "not_found", <<>>, loc[p])
          ELSE Goto(p, "ur_write", [loc[p] EXCEPT !.at = at])

\* find_one_and_update with $set on "...resources.<resource_index>.<k>"; the
\* database refuses a path component "-1" under an array (OperationFailure)
UrWrite(p) ==
    /\ pc[p] = "ur_write"
    /\ UNCHANGED <<enrollments, progress, certificates, courses, cache, redisUp,
                   clock>>
    /\ LET c == call[p].course_id
           doc == SetResourceFields(content[c], loc[p].at,
                                    call[p].resource_index, call[p].data)
       IN IF call[p].resource_index < 0
          THEN /\ UNCHANGED content
               /\ Respond(p, "operation_failure", <<>>, loc[p])
          ELSE /\ content' = [content EXCEPT ![c] = doc]
               /\ Goto(p, "cm_inval", [loc[p] EXCEPT !.result = <<doc>>,
                                                     !.mutated = TRUE])

(***************************************************************************)
(* delete_resource                                                         *)
(***************************************************************************)
StartDeleteResource(p, c, m, l, i) ==
    /\ Begin(p, "dr_find",
             [id |-> clock + 1, op |-> "delete_resource", course_id |-> c,
              module_id |-> m, lesson_id |-> l, resource_index |-> i])
    /\ UNCHANGED <<Stores, cache, redisUp, log>>

\* find_one, the loop with the same index test, then resources.pop(index) on
\* the list of the fetched document
DrFind(p) ==
    /\ pc[p] = "dr_find"
    /\ UNCHANGED <<Stores, cache, redisUp, clock>>
    /\ LET doc == content[call[p].course_id]
           at == Locate(doc, call[p].module_id, call[p].lesson_id)
           rs == ResourcesAt(doc, at)
           pos == PopPosition(Len(rs), call[p].resource_index)
       IN IF ~doc.present \/ at[1] = None \/ at[2] = None
          THEN Respond(p, "not_found", <<>>, loc[p])
          ELSE IF call[p].resource_index >= Len(rs)
          THEN Respond(p, "not_found", <<>>, loc[p])
          ELSE IF pos = None
          THEN Respond(p, "index_error", <<>>, loc[p])
          ELSE Goto(p, "dr_write", [loc[p] EXCEPT !.at = at,
                                                  !.resources = RemoveAt(rs, pos)])

\* update_one with $set of the whole resources array as popped above;
\* modified_count > 0 since updated_at is set on the matched document
DrWrite(p) ==
    /\ pc[p] = "dr_write"
    /\ LET c == call[p].course_id
           doc == SetResources(content[c], loc[p].at, loc[p].resources)
       IN /\ content' = [content EXCEPT ![c] = doc]
          /\ Goto(p, "cm_inval", [loc[p] EXCEPT !.result = <<TRUE>>,
                                                !.mutated = TRUE])
    /\ UNCHANGED <<enrollments, progress, certificates, courses, cache, redisUp,
                   clock>>

(***************************************************************************)
(* delete_module / delete_lesson: the service calls                        *)
(* content_repo.soft_delete_module / soft_delete_lesson, which             *)
(* CourseContentRepository does not define; the attribute lookup raises    *)
(* AttributeError before anything is read or written.                      *)
(***************************************************************************)
StartDeleteModule(p, c, m) ==
    /\ Begin(p, "dm_call",
             [id |-> clock + 1, op |-> "delete_module", course_id |-> c,
              module_id |-> m])
    /\ UNCHANGED <<Stores, cache, redisUp, log>>

StartDeleteLesson(p, c, m, l) ==
    /\ Begin(p, "dm_call",
             [id |-> clock + 1, op |-> "delete_lesson", course_id |-> c,
              module_id |-> m, lesson_id |-> l])
    /\ UNCHANGED <<Stores, cache, redisUp, log>>

SoftDeleteCall(p) ==
    /\ pc[p] = "dm_call"
    /\ UNCHANGED <<Stores, cache, redisUp, clock>>
    /\ Respond(p, "attribute_error", <<>>, loc[p])

(***************************************************************************)
(* The content operations of one course document, with the full-document   *)
(* upsert.  Every document has one module with two lessons, so that the    *)
(* positions a request computed exist in whatever document it writes to.   *)
(***************************************************************************)
ContentDoc(first, second) == Doc(<<[module_id |-> 1, lessons |-> <<first, second>>]>>)

InitContent ==
    /\ enrollments = <<>>
    /\ progress = <<>>
    /\ certificates = <<>>
    /\ content \in [ProgressCourses ->
          { NoDoc,
            ContentDoc(LessonR(1, "a", <<Resource("x")>>), LessonR(2, "a", <<>>)),
            ContentDoc(LessonR(1, "a", <<Resource("x"), Resource("y")>>),
                       LessonR(2, "a", <<Resource("x")>>)) }]
    /\ courses = <<>>
    /\ cache = EmptyCache
    /\ redisUp = TRUE
    /\ InitHandlers

ContentStart(p) ==
    \E c \in ProgressCourses :
       \/ \E m \in {1, 2}, l \in {1, 2} : StartUpdateLesson(p, c, m, l, "b")
       \/ \E l \in {1, 2} : StartAddResource(p, c, 1, l, "z")
       \/ \E l \in {1, 2}, i \in {-2, -1, 0, 1} :
             StartUpdateResource(p, c, 1, l, i, "w")
       \/ \E l \in {1, 2}, i \in {-2, -1, 0, 1} : StartDeleteResource(p, c, 1, l, i)
       \/ StartDeleteModule(p, c, 1)
       \/ \E l \in {1, 2} : StartDeleteLesson(p, c, 1, l)
       \/ \E doc \in { ContentDoc(LessonR(2, "a", <<Resource("x")>>),
                                  LessonR(1, "a", <<Resource("x")>>)) } :
             StartUpsertContent(p, c, doc)

ContentStep(p) ==
    \/ UlFind(p)
    \/ UlWrite(p)
    \/ ArFind(p)
    \/ ArWrite(p)
    \/ UrFind(p)
    \/ UrWrite(p)
    \/ DrFind(p)
    \/ DrWrite(p)
    \/ SoftDeleteCall(p)
    \/ ContentInvalidate(p)
    \/ UpsertWrite(p)
    \/ UpsertInvalidate(p)

NextContent ==
    \E p \in Procs : (clock < MaxRacing /\ ContentStart(p)) \/ ContentStep(p)

\* one request at a time
NextContentSeq == \E p \in Procs : (AllIdle /\ ContentStart(p)) \/ ContentStep(p)

SpecContent == InitContent /\ [][NextContent]_vars
SpecContentSeq == InitContent /\ [][NextContentSeq]_vars

(***************************************************************************)
(* The progress engine for a user with a history: user 1 completed lesson  *)
(* "1" of another course (course 2) earlier.                               *)
(***************************************************************************)
InitProgressHistory ==
    /\ enrollments \in {EnrollmentsOf(S, 1) : S \in SUBSET Users}
    /\ progress = <<[user_id |-> 1, course_id |-> 2, item_type |-> "lesson",
                     item_id |-> "1", completed_at |-> 1]>>
    /\ certificates = <<>>
    /\ content \in [ProgressCourses -> ContentPool]
    /\ courses = <<>>
    /\ cache = EmptyCache
    /\ redisUp = TRUE
    /\ InitHandlers

SpecProgressHistory == InitProgressHistory /\ [][NextProgressSeq]_vars


(***************************************************************************)
(* The life of one enrollment: student 1 in course 1, active or already    *)
(* completed, under mark_completed, drop and undrop, one request at a      *)
(* time.                                                                   *)
(***************************************************************************)
InitLifecycle ==
    /\ enrollments \in {<<EnrollmentWith(1, 1, st)>> : st \in {"active", "completed"}}
    /\ progress = <<>>
    /\ certificates = <<>>
    /\ content \in [ProgressCourses -> {NoDoc, Doc(<<Module(1, <<Lesson(1)>>)>>)}]
    /\ courses \in {<<[CourseRow("a", "s1", 1, "published", 1)
                         EXCEPT !.max_students = n]>> : n \in {None, 2}}
    /\ cache = EmptyCache
    /\ redisUp = TRUE
    /\ InitHandlers

LifecycleStart(p) ==
    \/ \E u \in Users : StartMarkCompleted(p, u, 1, "lesson", "1")
    \/ \E u \in Users : StartDropEnrollment(p, 1, u)
    \/ \E u \in Users : StartUndropEnrollment(p, 1, u)

LifecycleStep(p) ==
    \/ MarkLoad(p)
    \/ MarkInsert(p)
    \/ MarkFetch(p)
    \/ GpLoad(p)
    \/ GpContent(p)
    \/ GpProgress(p)
    \/ GpCert(p)
    \/ RepoUpdate(p)
    \/ RepoRefresh(p)
    \/ DropLoad(p)
    \/ DropFlag(p)
    \/ DropCount(p)
    \/ UndropLoad(p)
    \/ UndropCourse(p)
    \/ CountCache(p)
    \/ CountDb(p)
    \/ CountSet(p)
    \/ UndropSetFlag(p)
    \/ UndropDelCount(p)

NextLifecycle ==
    \E p \in Procs : (AllIdle /\ LifecycleStart(p)) \/ LifecycleStep(p)

SpecLifecycle == InitLifecycle /\ [][NextLifecycle]_vars


(***************************************************************************)
(* The summary computation of get_course_progress (lines 70-106) as a      *)
(* function of the active items _get_active_items returned and the         *)
(* progress rows read: k lessons with ids 1..k, followed by d more nodes   *)
(* that repeat lesson id 1 (the same id in another module), of which the   *)
(* user completed the lessons 1..j.                                        *)
(***************************************************************************)
MaxItems == 8        \* distinct lessons of the small trees
ManyItems == 20001   \* lessons of the large tree

ItemsOf(k, d) ==
    [n \in 1..(k + d) |-> [type |-> "lesson", id |-> IF n <= k THEN n ELSE 1]]

CompletedUpTo(j) == {<<"lesson", n>> : n \in 1..j}

ComputeSummary(k, d, j) ==
    /\ log = <<>>
    /\ log' = <<[call |-> [id |-> 1, op |-> "summary", lessons |-> k,
                           repeated |-> d, completed |-> j],
                 outcome |-> "ok",
                 ret |-> <<SummaryKwargs(1, 1, ItemsOf(k, d), CompletedUpTo(j),
                                         FALSE)>>]>>
    /\ UNCHANGED <<Stores, cache, redisUp, clock, pc, call, loc>>

InitSummary ==
    /\ enrollments = <<>>
    /\ progress = <<>>
    /\ certificates = <<>>
    /\ content = [c \in ProgressCourses |-> NoDoc]
    /\ courses = <<>>
    /\ cache = EmptyCache
    /\ redisUp = TRUE
    /\ InitHandlers

NextSummary ==
    \/ \E k \in 0..MaxItems, d \in 0..3, j \in 0..MaxItems :
          (j <= k /\ (d > 0 => k > 0)) /\ ComputeSummary(k, d, j)
    \/ \E j \in {ManyItems - 1, ManyItems} : ComputeSummary(ManyItems, 0, j)

SpecSummary == InitSummary /\ [][NextSummary]_vars


(***************************************************************************)
(* The responses of the log.                                               *)
(***************************************************************************)
Marks == {i \in DOMAIN log : log[i].call.op = "mark_completed"}
Summaries == {i \in DOMAIN log : log[i].call.op = "get_course_progress"}

SameItem(a, b) ==
    /\ a.user_id = b.user_id
    /\ a.course_id = b.course_id
    /\ a.item_type = b.item_type
    /\ a.item_id = b.item_id

Overlapped(i, j) == log[j].call.id \in log[i].seen \/ log[i].call.id \in log[j].seen

\* the enrollment of the caller was there, active or completed, when the
\* request arrived and when it was answered
Enrolled(i) ==
    /\ log[i].call.before.enr.id # None
    /\ log[i].call.before.enr.status \in {"active", "completed"}
    /\ log[i].after.enr.status \in {"active", "completed"}

RowsOfItem(c) ==
    {n \in DOMAIN progress :
        /\ progress[n].user_id = c.user_id
        /\ progress[n].item_type = c.item_type
        /\ progress[n].item_id = c.item_id}

WroteCompletedAt(i) == <<"enrollments", "completed_at">> \in log[i].cols

(***************************************************************************)
(* C1.  For an enrollment that is active or completed, two markCompleted   *)
(* calls made one after the other with the same (user, course, itemType,   *)
(* itemId) both succeed, return the same record (same id), and leave       *)
(* exactly one progress record for (user, itemType, itemId).               *)
(***************************************************************************)
C1_MarkTwiceSameRecord ==
    \A i \in Marks, j \in Marks :
        (i < j /\ SameItem(log[i].call, log[j].call) /\ ~Overlapped(i, j)
               /\ Enrolled(i) /\ Enrolled(j))
        => /\ log[i].outcome = "ok"
           /\ log[j].outcome = "ok"
           /\ log[i].ret # <<>>
           /\ log[i].ret = log[j].ret
           /\ Cardinality(RowsOfItem(log[i].call)) = 1

(***************************************************************************)
(* C2.  Two markCompleted calls for the same (user, itemType, itemId) that *)
(* overlap in time, on an active enrollment, both return success, and at   *)
(* most one progress record for the key exists afterwards.                 *)
(***************************************************************************)
C2_ConcurrentMarksSucceed ==
    \A i \in Marks, j \in Marks :
        (i < j /\ SameItem(log[i].call, log[j].call) /\ Overlapped(i, j)
               /\ Enrolled(i) /\ Enrolled(j))
        => /\ log[i].outcome = "ok"
           /\ log[j].outcome = "ok"
           /\ Cardinality(RowsOfItem(log[i].call)) <= 1

(***************************************************************************)
(* C3.  When a markCompleted call on an active enrollment makes every      *)
(* active item of the course (at least one) completed by the user, and the *)
(* enrollment has no certificate, the call has succeeded with the progress *)
(* record and the enrollment is completed, with completed_at set, when it  *)
(* returns.                                                                *)
(***************************************************************************)
C3_AutoCompleteOnFull ==
    \A i \in Marks :
        (/\ log[i].call.before.enr.id # None
         /\ log[i].call.before.enr.status = "active"
         /\ ~log[i].call.before.full
         /\ log[i].after.full
         /\ ~log[i].after.cert)
        => /\ log[i].outcome = "ok"
           /\ log[i].ret # <<>>
           /\ log[i].after.enr.status = "completed"
           /\ log[i].after.enr.completed_at # None

(***************************************************************************)
(* C4.  Over a sequence of markCompleted calls for one enrollment,         *)
(* completed_at is written exactly once: once a call has completed the     *)
(* course, exactly one call of the sequence has written completed_at, and  *)
(* a markCompleted call on a completed enrollment leaves status and        *)
(* completed_at as they were and writes neither.                           *)
(***************************************************************************)
C4_CompletedAtWrittenOnce ==
    /\ \A i \in Marks :
        (/\ log[i].call.before.enr.id # None
         /\ log[i].call.before.enr.status = "active"
         /\ log[i].after.full
         /\ ~log[i].after.cert)
        => Cardinality({j \in Marks :
                /\ log[j].call.user_id = log[i].call.user_id
                /\ log[j].call.course_id = log[i].call.course_id
                /\ WroteCompletedAt(j)}) = 1
    /\ \A i \in Marks :
        (/\ log[i].call.before.enr.id # None
         /\ log[i].call.before.enr.status = "completed")
        => /\ log[i].after.enr.status = "completed"
           /\ log[i].after.enr.completed_at = log[i].call.before.enr.completed_at
           /\ ~WroteCompletedAt(i)
           /\ <<"enrollments", "status">> \notin log[i].cols

(***************************************************************************)
(* C5.  getCourseProgress returns total_items = the number of active items *)
(* of the content tree, completed_items = the number of those the user has *)
(* a progress record for, and completion_percentage = round(100 *          *)
(* completed_items / total_items, 2); 3 of 5 gives 60.00, 3 of 4 gives     *)
(* 75.00.                                                                  *)
(***************************************************************************)
C5_SummaryCounts ==
    /\ Percentage(3, 5) = 6000
    /\ Percentage(3, 4) = 7500
    /\ \A i \in Summaries :
        Enrolled(i)
        => /\ log[i].outcome = "ok"
           /\ log[i].ret # <<>>
           /\ log[i].ret[1].total_items = log[i].after.total
           /\ log[i].ret[1].completed_items = log[i].after.done
           /\ log[i].ret[1].completion_percentage =
                 IF log[i].after.total = 0 THEN 0
                 ELSE RoundedPercent(log[i].after.done, log[i].after.total)

(***************************************************************************)
(* C6.  For an active or completed enrollment in a course with no active   *)
(* item, getCourseProgress returns a summary with completion_percentage =  *)
(* 0.00 and is_complete = false and does not fail, and markCompleted does  *)
(* not complete such an enrollment.                                        *)
(***************************************************************************)
C6_EmptyCourseSummary ==
    /\ \A i \in Summaries :
        (Enrolled(i) /\ log[i].after.total = 0)
        => /\ log[i].outcome = "ok"
           /\ log[i].ret # <<>>
           /\ log[i].ret[1].completion_percentage = 0
           /\ ~log[i].ret[1].is_complete
    /\ \A i \in Marks :
        (/\ log[i].call.before.enr.id # None
         /\ log[i].call.before.enr.status = "active"
         /\ log[i].after.total = 0)
        => log[i].after.enr.status = "active"

(***************************************************************************)
(* C7.  markCompleted fails with not-enrolled when there is no enrollment  *)
(* for (user, course) and with enrollment-not-active when its status is    *)
(* neither active nor completed; the failing call inserts no progress      *)
(* record and leaves the enrollment as it is.                              *)
(***************************************************************************)
C7_Rejects(p) ==
    (pc[p] = "mc_load" /\ pc'[p] # "mc_load")
    => LET eid == FindEnrollment(enrollments, call[p].user_id, call[p].course_id)
           refused == IF eid = None THEN "not_enrolled"
                      ELSE IF enrollments[eid].status \notin {"active", "completed"}
                           THEN "not_active" ELSE "no"
       IN IF refused = "no" THEN pc'[p] = "mc_insert"
          ELSE /\ Len(log') = Len(log) + 1
               /\ Last(log').call = call[p]
               /\ Last(log').outcome = refused
               /\ progress' = progress
               /\ enrollments' = enrollments

C7_RejectedWroteNothing ==
    \A i \in Marks :
        log[i].outcome \in {"not_enrolled", "not_active"}
        => log[i].cols = {} /\ ~log[i].mutated

C7_MarkRejectsWithoutWriting ==
    [](C7_RejectedWroteNothing) /\ [][\A p \in Procs : C7_Rejects(p)]_vars

\* a markCompleted call was refused on an enrollment dropped by a call it
\* overlapped with
C7_Witness ==
    \E i \in Marks, j \in DOMAIN log :
        /\ log[i].outcome = "not_active"
        /\ log[j].call.op = "drop_enrollment"
        /\ log[j].outcome = "ok"
        /\ Overlapped(i, j)

\* a markCompleted call was refused for want of an enrollment
C7_NotEnrolledReached == \E i \in Marks : log[i].outcome = "not_enrolled"

(***************************************************************************)
(* C8.  markCompleted inserts no progress record, and writes no status or  *)
(* completed_at, at a moment when the stored status of the caller's        *)
(* enrollment is neither active nor completed, whatever drop does          *)
(* meanwhile.                                                              *)
(***************************************************************************)
C8_Writes(p) ==
    \/ pc[p] = "mc_insert" /\ progress' # progress
    \/ /\ pc[p] = "repo_update"
       /\ pc'[p] # pc[p]
       /\ \E k \in {"status", "completed_at"} :
             enrollments'[loc[p].enr.id][k] # enrollments[loc[p].enr.id][k]

C8_NoProgressWhileNotActive ==
    [][\A p \in Procs :
         (call[p].op = "mark_completed" /\ C8_Writes(p))
         => LET eid == FindEnrollment(enrollments, call[p].user_id,
                                      call[p].course_id)
            IN eid # None /\ enrollments[eid].status \in {"active", "completed"}]_vars

(***************************************************************************)
(* The responses of the course catalogue.                                  *)
(***************************************************************************)
CourseReads == {"get_course", "list_published_courses"}
CourseWrites == {"create_course", "update_course", "update_status", "delete_course"}

OnlyReadsBetween(i, j) ==
    \A k \in DOMAIN log : (i < k /\ k < j) => log[k].call.op \in CourseReads

\* the course a write was about: the one it names, or the one it created
CourseOfWrite(i) ==
    IF log[i].call.op = "create_course" THEN log[i].ret[1].id
    ELSE log[i].call.course_id

(***************************************************************************)
(* C9.  With the cache reachable and one request served at a time, once    *)
(* update_course(id, fields) by the owning instructor has returned, the    *)
(* next get_course(id) succeeds and returns, for every field sent, the     *)
(* value sent, whatever reads filled the cache before.                     *)
(***************************************************************************)
C9_UpdateThenGetDetail ==
    redisUp =>
    \A i \in DOMAIN log, j \in DOMAIN log :
        (/\ i < j
         /\ log[i].call.op = "update_course"
         /\ log[i].outcome = "ok"
         /\ log[j].call.op = "get_course"
         /\ log[j].call.course_id = log[i].call.course_id
         /\ OnlyReadsBetween(i, j))
        => /\ log[j].outcome = "ok"
           /\ \A k \in DOMAIN log[i].call.data :
                 log[j].ret[1][k] = log[i].call.data[k]

\* the detail entry was cached, the update changed the title, and the next
\* get_course returned the new title
C9_Witness ==
    /\ redisUp
    /\ \E h \in DOMAIN log, i \in DOMAIN log, j \in DOMAIN log :
        /\ h < i /\ i < j
        /\ log[h].call.op = "get_course"
        /\ log[h].outcome = "ok"
        /\ log[i].call.op = "update_course"
        /\ log[i].outcome = "ok"
        /\ log[h].call.course_id = log[i].call.course_id
        /\ <<"course:detail", log[i].call.course_id>> \in DOMAIN log[i].call.before.detail
        /\ <<"courses", "title">> \in log[i].cols
        /\ log[j].call.op = "get_course"
        /\ log[j].call.course_id = log[i].call.course_id
        /\ log[j].outcome = "ok"
        /\ log[j].ret[1].title = log[i].call.data.title
        /\ log[j].ret[1].title # log[h].ret[1].title

(***************************************************************************)
(* C10.  With the cache reachable, when create_course, update_course,      *)
(* update_status or delete_course returns after its store mutation, the    *)
(* cache holds no course:detail entry of that course and no                *)
(* course:published entry.                                                 *)
(***************************************************************************)
C10_WritesInvalidate ==
    redisUp =>
    \A i \in DOMAIN log :
        (/\ log[i].call.op \in CourseWrites
         /\ log[i].outcome = "ok"
         /\ log[i].mutated)
        => /\ <<"course:detail", CourseOfWrite(i)>> \notin DOMAIN log[i].after.detail
           /\ DOMAIN log[i].after.pages = {}

\* the store's current view of one course, as get_course answers on a miss
DetailOf(T, id) ==
    IF id \in DOMAIN T /\ ~T[id].is_deleted
    THEN <<CourseToDict(Loaded(T, id))>> ELSE <<>>

\* the store's current view of one listing page
PageOf(T, skip, limit) ==
    LET objs == GetPublished(T, skip, limit)
    IN [items |-> [n \in DOMAIN objs |-> CourseToDict(objs[n])],
        total |-> CountPublished(T)]

CachedDetailKeys == {k \in DOMAIN cache : k[1] = "course:detail"}
CachedPageKeys == {k \in DOMAIN cache : k[1] = "course:published"}

(***************************************************************************)
(* C11.  Whenever no course operation is in flight (cache reachable, no    *)
(* entry expired), every cached course:detail entry equals the store's     *)
(* current view of that course and every cached course:published page      *)
(* equals the store's current listing, whatever the interleaving of the    *)
(* reads with update_course, update_status and delete_course was.          *)
(***************************************************************************)
C11_CacheAgreesWhenQuiet ==
    (redisUp /\ AllIdle) =>
        /\ \A k \in CachedDetailKeys :
              <<JsonLoads(cache[k])>> = DetailOf(courses, k[2])
        /\ \A k \in CachedPageKeys :
              JsonLoads(cache[k]) = PageOf(courses, k[2], k[3])


OwnedWrites == {"update_course", "update_status", "delete_course"}

\* handler p takes the step that follows its get_by_id of the course
LoadsCourse(p) ==
    /\ pc[p] \in {"up_load", "st_load", "de_load"}
    /\ pc'[p] # pc[p]

\* the stored course exists, is not soft-deleted and belongs to another
\* instructor than the caller
ForeignCourse(p) ==
    /\ call[p].course_id \in DOMAIN courses
    /\ ~courses[call[p].course_id].is_deleted
    /\ courses[call[p].course_id].instructor_id # call[p].instructor_id

C12_Refuses(p) ==
    (LoadsCourse(p) /\ ForeignCourse(p))
    => /\ Len(log') = Len(log) + 1
       /\ Last(log').call = call[p]
       /\ Last(log').outcome = "permission_error"
       /\ courses' = courses
       /\ cache' = cache

\* ... and only then
C12_RefusesOnlyForeign(p) ==
    (LoadsCourse(p) /\ Len(log') > Len(log)
        /\ Last(log').outcome = "permission_error")
    => ForeignCourse(p)

C12_RefusedWroteNothing ==
    \A i \in DOMAIN log :
        (log[i].call.op \in OwnedWrites /\ log[i].outcome = "permission_error")
        => log[i].cols = {} /\ ~log[i].mutated

Enrolls == {i \in DOMAIN log : log[i].call.op = "enroll_student"}

SamePair(i, j) ==
    /\ log[i].call.student_id = log[j].call.student_id
    /\ log[i].call.course_id = log[j].call.course_id

RowsOfPair(E, s, c) ==
    {n \in DOMAIN E : E[n].student_id = s /\ E[n].course_id = c}

(***************************************************************************)
(* C13.  In every reachable state there is at most one enrollment row per  *)
(* (student, course), however concurrent enroll_student calls for the pair *)
(* interleave and whatever the cached enrolled flag says; of two           *)
(* overlapping enroll_student calls for one pair at most one succeeds.     *)
(***************************************************************************)
C13_OneEnrollmentPerPair ==
    /\ \A s \in Users, c \in EnrollCourseIds :
          Cardinality(RowsOfPair(enrollments, s, c)) <= 1
    /\ \A i \in Enrolls, j \in Enrolls :
          (i # j /\ SamePair(i, j) /\ Overlapped(i, j))
          => ~(log[i].outcome = "ok" /\ log[j].outcome = "ok")

\* two overlapping calls for one pair both passed the flag test (the flag
\* was absent, and the one left in the cache says false); the constraint
\* stopped the second
C13_Witness ==
    \E i \in Enrolls, j \in Enrolls :
        /\ i # j /\ SamePair(i, j) /\ Overlapped(i, j)
        /\ log[i].outcome = "ok"
        /\ log[j].outcome = "integrity_error"
        /\ redisUp
        /\ Cardinality(RowsOfPair(enrollments, log[i].call.student_id,
                                  log[i].call.course_id)) = 1


\* course c exists, is not soft-deleted and is published
OpenCourse(T, c) ==
    /\ c \in DOMAIN T
    /\ ~T[c].is_deleted
    /\ T[c].status = "published"

RowsOfCourse(E, c) == {n \in DOMAIN E : E[n].course_id = c}

\* when request i arrived, its course was open for enrollment, had a limit
\* and had that many enrollment rows or more
CourseFullBefore(i) ==
    LET T == log[i].call.before.courses
        E == log[i].call.before.rows
        c == log[i].call.course_id
    IN /\ OpenCourse(T, c)
       /\ T[c].max_students # None
       /\ Cardinality(RowsOfCourse(E, c)) >= T[c].max_students

(***************************************************************************)
(* C14.  One request at a time, after any history of enroll, drop and      *)
(* undrop: an enroll_student call for a published course whose             *)
(* max_students is N and that has N enrollments already fails with the     *)
(* limit error and creates no row, whether the count it compared came from *)
(* the cache or from the store.                                            *)
(***************************************************************************)
C14_FullCourseRefuses ==
    \A i \in Enrolls :
        CourseFullBefore(i)
        => /\ log[i].outcome = "limit_reached"
           /\ log[i].cols = {}
           /\ log[i].after.rows = log[i].call.before.rows

\* a full course refused one call on the count of the store, which it
\* cached, and the next call on the cached count
C14_Witness ==
    \E i \in Enrolls, j \in Enrolls :
        /\ i < j
        /\ log[i].call.course_id = log[j].call.course_id
        /\ CourseFullBefore(i) /\ CourseFullBefore(j)
        /\ log[i].outcome = "limit_reached"
        /\ "course:enrollment_count" \notin log[i].hits
        /\ log[j].outcome = "limit_reached"
        /\ "course:enrollment_count" \in log[j].hits


\* the (student, course) flags the cache holds as true
FlagsTrue(K) ==
    {k \in DOMAIN K : k[1] = "course:enrolled" /\ JsonLoads(K[k]) = TRUE}

FlagKey(i) == <<"course:enrolled", log[i].call.student_id, log[i].call.course_id>>
CountKey(i) == <<"course:enrollment_count", log[i].call.course_id>>

\* when request i arrived there was a row for its pair, in whatever status
RowBefore(i) ==
    RowsOfPair(log[i].call.before.rows, log[i].call.student_id,
               log[i].call.course_id) # {}

CourseClosedBefore(i) ==
    ~OpenCourse(log[i].call.before.courses, log[i].call.course_id)

\* the limit test will pass: no limit, or fewer rows than the limit
SeatsBefore(i) ==
    LET T == log[i].call.before.courses
        c == log[i].call.course_id
    IN \/ T[c].max_students = None
       \/ Cardinality(RowsOfCourse(log[i].call.before.rows, c)) < T[c].max_students

\* request i failed and created no row
EnrollFailed(i) ==
    /\ log[i].outcome # "ok"
    /\ log[i].cols = {}
    /\ log[i].after.rows = log[i].call.before.rows

\* request i created one active row, set the flag and removed the count
EnrollSucceeded(i) ==
    LET E == log[i].after.rows
    IN /\ log[i].outcome = "ok"
       /\ Len(E) = Len(log[i].call.before.rows) + 1
       /\ SubSeq(E, 1, Len(E) - 1) = log[i].call.before.rows
       /\ E[Len(E)].student_id = log[i].call.student_id
       /\ E[Len(E)].course_id = log[i].call.course_id
       /\ E[Len(E)].status = "active"
       /\ redisUp => /\ FlagKey(i) \in FlagsTrue(log[i].after.cache)
                     /\ CountKey(i) \notin DOMAIN log[i].after.cache

Drops == {i \in DOMAIN log : log[i].call.op = "drop_enrollment"}
Undrops == {i \in DOMAIN log : log[i].call.op = "undrop_enrollment"}

\* the enrollment request i names existed when it arrived
NamedRow(i) == log[i].call.enrollment_id \in DOMAIN log[i].call.before.rows
RowNamedBefore(i) == log[i].call.before.rows[log[i].call.enrollment_id]
RowNamedAfter(i) == log[i].after.rows[log[i].call.enrollment_id]

NotOwner(i) == NamedRow(i) /\ RowNamedBefore(i).student_id # log[i].call.student_id

\* the course of the enrollment passes the tests enroll_student makes
CourseAdmits(i) ==
    LET T == log[i].call.before.courses
        c == RowNamedBefore(i).course_id
    IN /\ OpenCourse(T, c)
       /\ \/ T[c].max_students = None
          \/ Cardinality(RowsOfCourse(log[i].call.before.rows, c)) < T[c].max_students

RowsUnchanged(i) == log[i].after.rows = log[i].call.before.rows /\ log[i].cols = {}

(***************************************************************************)
(* C16.  One request at a time: drop_enrollment and undrop_enrollment      *)
(* called by a user who is not the student of the enrollment fail with     *)
(* PermissionError and leave the enrollment as it is; undrop_enrollment by *)
(* the student fails, leaving the enrollment as it is, unless its status   *)
(* is dropped and the course exists, is published and is below its         *)
(* max_students; otherwise it succeeds and leaves the enrollment active    *)
(* with dropped_at cleared.                                                *)
(***************************************************************************)
C16_DropUndropChecks ==
    /\ \A i \in Drops \cup Undrops :
          NotOwner(i) => (log[i].outcome = "permission_error" /\ RowsUnchanged(i))
    /\ \A i \in Undrops :
          (NamedRow(i) /\ ~NotOwner(i))
          => IF RowNamedBefore(i).status = "dropped" /\ CourseAdmits(i)
             THEN /\ log[i].outcome = "ok"
                  /\ RowNamedAfter(i) = [RowNamedBefore(i) EXCEPT
                                            !.status = "active",
                                            !.dropped_at = None]
                  /\ \A n \in DOMAIN log[i].after.rows :
                        n # log[i].call.enrollment_id
                        => log[i].after.rows[n] = log[i].call.before.rows[n]
             ELSE log[i].outcome \notin {"ok", "permission_error"} /\ RowsUnchanged(i)

\* an undrop by another user was refused on a dropped enrollment, which its
\* student then undropped
C16_Witness ==
    \E i \in Undrops, j \in Undrops :
        /\ i < j
        /\ log[i].call.enrollment_id = log[j].call.enrollment_id
        /\ NotOwner(i)
        /\ RowNamedBefore(i).status = "dropped"
        /\ log[i].outcome = "permission_error"
        /\ log[j].outcome = "ok"
        /\ RowNamedBefore(j).dropped_at # None
        /\ RowNamedAfter(j).status = "active"
        /\ RowNamedAfter(j).dropped_at = None

\* an undrop by the student was refused because the course is full
C16_LimitReached ==
    \E i \in Undrops : ~NotOwner(i) /\ log[i].outcome = "limit_reached"



(***************************************************************************)
(* Certificates.                                                           *)
(***************************************************************************)
Issues == {i \in DOMAIN log : log[i].call.op = "issue_certificate"}
Alone(i) == log[i].seen = {}

\* the certificate rows of one enrollment
CertsOfEnrollment(C, eid) == {n \in DOMAIN C : C[n].enrollment_id = eid}

\* when the call began the enrollment was completed and the actor was a
\* privileged one or its student
Entitled(i) ==
    LET c == log[i].call
    IN /\ c.enrollment_id \in DOMAIN c.before.rows
       /\ c.before.rows[c.enrollment_id].status = "completed"
       /\ \/ c.role \in {"instructor", "admin"}
          \/ c.before.rows[c.enrollment_id].student_id = c.user_id

C17_RaceReached ==
    \E i \in Issues, j \in Issues :
        /\ i # j
        /\ log[i].call.enrollment_id = log[j].call.enrollment_id
        /\ log[i].outcome = "ok"
        /\ log[j].outcome = "integrity_error"

\* a call on an enrollment whose certificate is revoked
C17_RevokedReached ==
    \E i \in Issues :
        LET c == log[i].call
        IN /\ Entitled(i)
           /\ \E n \in CertsOfEnrollment(c.before.certs, c.enrollment_id) :
                 c.before.certs[n].is_revoked
           /\ log[i].outcome = "already_issued"


\* the enrollment was completed when the call began (no handler of this
\* behaviour makes an enrollment completed, so it was if it ever is)
CompletedAtCall(i) ==
    LET c == log[i].call
    IN /\ c.enrollment_id \in DOMAIN c.before.rows
       /\ c.before.rows[c.enrollment_id].status = "completed"

ActorMayIssue(i) ==
    LET c == log[i].call
    IN \/ c.role \in {"instructor", "admin"}
       \/ /\ c.enrollment_id \in DOMAIN c.before.rows
          /\ c.before.rows[c.enrollment_id].student_id = c.user_id

\* C18: issue_certificate answers with a certificate, and writes one, only
\* if the enrollment exists and is completed and the actor is an instructor,
\* an admin or the student of the enrollment; a call that fails has written
\* nothing to the certificate store, and a call that succeeds has added the
\* one row it returns, for the enrollment it names.
C18_IssueOnlyWhenEntitled ==
    \A i \in Issues :
        LET c == log[i].call
            r == log[i]
        IN /\ (r.outcome = "ok" \/ r.mutated) =>
                 (CompletedAtCall(i) /\ ActorMayIssue(i))
           /\ r.outcome # "ok" =>
                 /\ ~r.mutated
                 /\ r.cols = {}
                 /\ (Alone(i) => r.after.certs = c.before.certs)
           /\ r.outcome = "ok" =>
                 /\ r.mutated
                 /\ r.ret[1].enrollment_id = c.enrollment_id
                 /\ r.ret[1].id \in DOMAIN r.after.certs
                 /\ r.ret[1].id \notin DOMAIN c.before.certs
                 /\ r.after.certs[r.ret[1].id].enrollment_id = c.enrollment_id

\* each refusal happened, and so did an issue by the student and by staff
C18_Witness ==
    /\ \E i \in Issues : log[i].outcome = "ok" /\ log[i].call.role = "student"
    /\ \E i \in Issues :
          /\ log[i].outcome \in {"enrollment_not_found", "not_completed",
                                 "not_own_enrollment"}
          /\ log[i].after.certs = log[i].call.before.certs
          /\ Alone(i)

C18_NotOwnReached ==
    \E i \in Issues : log[i].outcome = "not_own_enrollment"

C18_NotCompletedReached ==
    \E i \in Issues : log[i].outcome = "not_completed"

C18_NotFoundReached ==
    \E i \in Issues : log[i].outcome = "enrollment_not_found"


Verifies == {i \in DOMAIN log : log[i].call.op = "verify_certificate"}

\* the stores that differ from C only in the enrollment (and so the student)
\* a certificate belongs to and in who issued it
OwnerVariants(C) ==
    {[n \in DOMAIN C |-> [C[n] EXCEPT !.enrollment_id = f[n][1],
                                      !.issued_by_id = f[n][2]]] :
        f \in [DOMAIN C -> {1, 2, 3} \X {None, 1, 2}]}

\* what the verify endpoint answers for a code on a store
VerifyOn(C, code) ==
    LET cid == GetByVerificationCode(C, code)
    IN VerifyResponse(IF cid = None THEN NoObject ELSE Loaded(C, cid))

\* C19: the answer of verify_certificate is the one the endpoint gives on
\* every store that differs only in the enrollment ids and issuer ids of the
\* certificates (the enrollments table, and with it the students, is not
\* read at all); it has the five fields is_valid, certificate_number,
\* issue_date, grade and is_revoked, with is_valid the negation of
\* is_revoked; and for a code no certificate carries it is is_valid = false
\* with nothing else filled in.
C19_VerifyRevealsOnlyPublicFields ==
    \A i \in Verifies :
        LET c == log[i].call
            C == log[i].after.certs
            r == log[i].ret[1]
            known == {n \in DOMAIN C : C[n].verification_code = c.code}
        IN /\ log[i].outcome = "ok"
           /\ \A V \in OwnerVariants(C) : VerifyOn(V, c.code) = r
           /\ DOMAIN r = {"is_valid", "certificate_number", "issue_date",
                          "grade", "is_revoked"}
           /\ known = {} =>
                 r = [is_valid |-> FALSE, certificate_number |-> None,
                      issue_date |-> None, grade |-> None, is_revoked |-> FALSE]
           /\ \A n \in known :
                 /\ r.is_valid = ~C[n].is_revoked
                 /\ r.is_revoked = C[n].is_revoked
                 /\ r.certificate_number = C[n].certificate_number
                 /\ r.issue_date = C[n].issue_date
                 /\ r.grade = C[n].grade

\* a valid, a revoked and an unknown code were verified
C19_Witness ==
    /\ \E i \in Verifies : log[i].ret[1].is_valid
    /\ \E i \in Verifies :
          \A n \in DOMAIN log[i].after.certs :
              log[i].after.certs[n].verification_code # log[i].call.code

C19_RevokedVerified ==
    \E i \in Verifies : log[i].ret[1].is_revoked

\* the other read without authentication, get_certificate, answers with
\* every column, the enrollment id and the issuer among them
C19_GetCertificateAnswered ==
    \E i \in DOMAIN log :
        /\ log[i].call.op = "get_certificate"
        /\ log[i].outcome = "ok"
        /\ log[i].ret[1].enrollment_id \in DOMAIN enrollments


(***************************************************************************)
(* The cache out of reach.                                                 *)
(***************************************************************************)
EnrollmentCalls == {i \in DOMAIN log : log[i].call.op \in EnrollmentOps}
RanDown(i) == ~log[i].call.up
RanOnEmpty(i) == log[i].call.up /\ log[i].call.before.cache = EmptyCache

\* what the stores alone prescribe for an enrollment request: the error, or
\* "ok"
CourseVerdict(T, E, c) ==
    IF c \notin DOMAIN T THEN "course_not_found"
    ELSE IF T[c].is_deleted THEN "course_not_found"
    ELSE IF T[c].status # "published" THEN "course_not_available"
    ELSE IF T[c].max_students # None
            /\ Cardinality(RowsOfCourse(E, c)) >= T[c].max_students
         THEN "limit_reached"
    ELSE "ok"

StoreVerdict(c) ==
    LET E == c.before.rows
        T == c.before.courses
    IN IF c.op = "enroll_student"
       THEN IF CourseVerdict(T, E, c.course_id) # "ok"
            THEN CourseVerdict(T, E, c.course_id)
            ELSE IF RowsOfPair(E, c.student_id, c.course_id) # {}
                 THEN "already_enrolled"
                 ELSE "ok"
       ELSE IF c.enrollment_id \notin DOMAIN E THEN "not_found"
       ELSE IF E[c.enrollment_id].student_id # c.student_id
            THEN "permission_error"
       ELSE IF c.op = "drop_enrollment" THEN "ok"
       ELSE IF E[c.enrollment_id].status # "dropped" THEN "not_dropped"
       ELSE CourseVerdict(T, E, E[c.enrollment_id].course_id)

\* the enrollment rows the stores alone prescribe, but for the time written
StoreEffect(i) ==
    LET c == log[i].call
        E == c.before.rows
        A == log[i].after.rows
    IN IF StoreVerdict(c) # "ok" THEN A = E
       ELSE IF c.op = "enroll_student"
            THEN /\ Len(A) = Len(E) + 1
                 /\ SubSeq(A, 1, Len(E)) = E
                 /\ A[Len(A)] = [A[Len(A)] EXCEPT !.student_id = c.student_id,
                                                  !.course_id = c.course_id,
                                                  !.status = "active",
                                                  !.dropped_at = None,
                                                  !.completed_at = None]
       ELSE IF c.op = "drop_enrollment"
            THEN /\ DOMAIN A = DOMAIN E
                 /\ A[c.enrollment_id].dropped_at # None
                 /\ A = [E EXCEPT ![c.enrollment_id] =
                            [@ EXCEPT !.status = "dropped",
                                      !.dropped_at = A[c.enrollment_id].dropped_at]]
       ELSE A = [E EXCEPT ![c.enrollment_id] =
                    [@ EXCEPT !.status = "active", !.dropped_at = None]]

\* rows (or returned objects) with the time of a drop read as "set"
Timeless(rows) ==
    [n \in DOMAIN rows |->
        [rows[n] EXCEPT !.dropped_at = IF @ = None THEN None ELSE 1]]

\* the same request on the same stores
SameRequest(i, j) ==
    LET a == log[i].call
        b == log[j].call
    IN /\ a.op = b.op
       /\ a.student_id = b.student_id
       /\ IF a.op = "enroll_student" THEN a.course_id = b.course_id
          ELSE a.enrollment_id = b.enrollment_id
       /\ a.before.rows = b.before.rows
       /\ a.before.courses = b.before.courses

Details == {i \in DOMAIN log : log[i].call.op = "get_course"}

C20_DownOverEntries ==
    \E i \in EnrollmentCalls :
        RanDown(i) /\ log[i].call.before.cache # EmptyCache

\* get_course answered with a course both ways
C20_DetailBothWays ==
    \E i \in Details, j \in Details :
        /\ RanDown(i)
        /\ log[j].call.up /\ DOMAIN log[j].call.before.detail = {}
        /\ log[j].call.course_id = log[i].call.course_id
        /\ log[i].ret # <<>>
        /\ log[j].ret = log[i].ret

C20_EmptyCreated ==
    \E i \in EnrollmentCalls :
        RanOnEmpty(i) /\ log[i].outcome = "ok" /\ log[i].call.op = "enroll_student"


(***************************************************************************)
(* Browsing.                                                               *)
(***************************************************************************)
Lists == {i \in DOMAIN log : log[i].call.op = "list_published_courses"}

\* the courses a browser may see
Visible(T) == {n \in DOMAIN T : T[n].status = "published" /\ T[n].is_deleted = FALSE}

\* C21: one request at a time and the cache reachable: every course in the
\* page list_published_courses returns, from the cache or from the store, is
\* published and not soft-deleted in the store when the call returns, and
\* the total returned is the number of such courses.
C21_ListedArePublished ==
    redisUp =>
    \A i \in Lists :
        LET page == log[i].ret[1]
            T == log[i].after.rows
        IN /\ log[i].outcome = "ok"
           /\ \A n \in DOMAIN page.items : page.items[n].id \in Visible(T)
           /\ page.total = Cardinality(Visible(T))

\* a page was filled from the store, a course of it left the published ones,
\* and the same page was asked for again
C21_Witness ==
    /\ redisUp
    /\ \E i \in Lists, j \in Lists :
          /\ i < j
          /\ log[i].call.skip = log[j].call.skip
          /\ log[i].call.limit = log[j].call.limit
          /\ log[i].ret[1].total > log[j].ret[1].total
          /\ Len(log[i].ret[1].items) > 0

\* a page was answered from the cache
C21_ServedFromCache ==
    /\ redisUp
    /\ \E i \in Lists :
          <<"course:published", log[i].call.skip, log[i].call.limit>>
              \in DOMAIN log[i].call.before.pages


(***************************************************************************)
(* Content mutations.                                                      *)
(***************************************************************************)
SoftDeletes == {i \in DOMAIN log : log[i].call.op \in {"delete_module", "delete_lesson"}}

\* the document with is_active = false on the node a delete call addresses
Deactivated(doc, c) ==
    LET m == PosOf(doc.modules, "module_id", c.module_id)
    IN IF c.op = "delete_module"
       THEN [doc EXCEPT !.modules[m] = [is_active |-> FALSE] @@ @]
       ELSE [doc EXCEPT !.modules[m].lessons[
                            PosOf(doc.modules[m].lessons, "lesson_id", c.lesson_id)] =
                         [is_active |-> FALSE] @@ @]

\* C22: a delete_module / delete_lesson call that addresses an existing
\* module or lesson succeeds and leaves the course document as it was except
\* for is_active = false on the addressed node: no node is removed, every
\* other node is unchanged, and the node's items no longer count toward the
\* totals of getCourseProgress (they are not among the active items).
C22_SoftDeleteDeactivates ==
    \A i \in SoftDeletes :
        LET c == log[i].call
            m == PosOf(c.before.modules, "module_id", c.module_id)
            l == IF c.op = "delete_lesson" /\ m # None
                 THEN PosOf(c.before.modules[m].lessons, "lesson_id", c.lesson_id)
                 ELSE None
        IN (c.before.present /\ m # None /\ (c.op = "delete_lesson" => l # None)) =>
              /\ log[i].outcome = "ok"
              /\ log[i].after = Deactivated(c.before, c)
              /\ Len(GetActiveItems(log[i].after)) < Len(GetActiveItems(c.before))


LocateOps == {"update_lesson", "add_resource", "update_resource", "delete_resource"}
LocateCalls == {i \in DOMAIN log : log[i].call.op \in LocateOps}

\* the call names a lesson of the document and, for the resource-index
\* operations, an index 0 .. len(resources) - 1 of that lesson
Addresses(doc, c) ==
    /\ doc.present
    /\ \E m \in DOMAIN doc.modules :
          /\ doc.modules[m].module_id = c.module_id
          /\ \E l \in DOMAIN doc.modules[m].lessons :
                LET lesson == doc.modules[m].lessons[l]
                IN /\ lesson.lesson_id = c.lesson_id
                   /\ c.op \in {"update_resource", "delete_resource"} =>
                         /\ c.resource_index >= 0
                         /\ c.resource_index < Len(lesson.resources)

\* C23: update_lesson, add_resource, update_resource and delete_resource
\* answer "not found" and leave the course document unchanged whenever the
\* course document, the module id, the lesson id or the resource index does
\* not address an existing element, negative indices and index = number of
\* resources included.
C23_NotFoundLeavesDocument ==
    \A i \in LocateCalls :
        ~Addresses(log[i].call.before, log[i].call) =>
            /\ log[i].outcome = "not_found"
            /\ log[i].after = log[i].call.before


\* a locate-then-mutate call p is issuing its write in this step
Writes(p) ==
    /\ pc[p] \in {"ul_write", "ar_write", "ur_write", "dr_write"}
    /\ pc'[p] = "cm_inval"

\* every lesson that does not carry the ids of call c is the same in old and
\* new, and the lesson that carries them keeps all its resources but the one
\* a delete_resource removes
LandsOnAddressed(old, new, c) ==
    /\ Len(new.modules) = Len(old.modules)
    /\ \A m \in DOMAIN old.modules :
          /\ Len(new.modules[m].lessons) = Len(old.modules[m].lessons)
          /\ \A l \in DOMAIN old.modules[m].lessons :
                LET a == old.modules[m].lessons[l]
                    b == new.modules[m].lessons[l]
                IN IF old.modules[m].module_id = c.module_id
                      /\ a.lesson_id = c.lesson_id
                   THEN Len(b.resources) >=
                           Len(a.resources) - (IF c.op = "delete_resource" THEN 1 ELSE 0)
                   ELSE b = a

\* C24: the write of update_lesson, add_resource, update_resource or
\* delete_resource changes only the lesson that carries the call's module id
\* and lesson id when the write is made, whatever other content mutation of
\* the same document ran between the call's read and its write, and it
\* drops no resource other than the one it deletes.
C24_WritesLandOnAddressed ==
    [][\A p \in Procs :
          Writes(p) => LandsOnAddressed(content[call[p].course_id],
                                        content'[call[p].course_id], call[p])]_vars


(***************************************************************************)
(* Progress across courses.                                                *)
(***************************************************************************)
\* a mark_completed call that passed the enrollment checks (it was not
\* refused as not enrolled or not active), so its insert was issued
MarksAccepted ==
    {i \in DOMAIN log : /\ log[i].call.op = "mark_completed"
                        /\ log[i].outcome \notin {"not_enrolled", "not_active"}}

IsActiveItem(doc, t, id) ==
    \E n \in DOMAIN GetActiveItems(doc) :
        GetActiveItems(doc)[n] = [type |-> t, id |-> id]

\* C25: once markCompleted(user, C, itemType, itemId) went through on an
\* active enrollment and the item is an active item of C, the progress rows
\* of (user, C), from which getCourseProgress counts, hold the item,
\* whatever the user completed before, in this or in another course.
C25_MarkedItemIsCounted ==
    \A i \in MarksAccepted :
        LET c == log[i].call
        IN IsActiveItem(content[c.course_id], c.item_type, c.item_id) =>
              \E n \in DOMAIN progress :
                  /\ progress[n].user_id = c.user_id
                  /\ progress[n].course_id = c.course_id
                  /\ progress[n].item_type = c.item_type
                  /\ progress[n].item_id = c.item_id


(***************************************************************************)
(* Capacity.                                                               *)
(***************************************************************************)
WithinLimit(E, T, c) ==
    T[c].max_students # None =>
        Cardinality({n \in DOMAIN E : E[n].course_id = c}) <= T[c].max_students

\* C26: a course whose max_students = N does not change never gets more
\* than N enrollment rows: no step takes a course from at most N rows to
\* more than N, in any interleaving of enroll calls by different students
\* and with a count cached after another enroll committed.
C26_NeverOverCapacity ==
    [][\A c \in DOMAIN courses :
          (courses'[c].max_students = courses[c].max_students
             /\ WithinLimit(enrollments, courses, c))
          => WithinLimit(enrollments', courses', c)]_vars


ActiveRowsOfCourse(E, c) ==
    {n \in DOMAIN E : E[n].course_id = c /\ E[n].status = "active"}

\* the course an enroll or undrop request is about, None if the undrop
\* names no row
CourseAsked(c) ==
    IF c.op = "enroll_student" THEN c.course_id
    ELSE IF c.enrollment_id \in DOMAIN c.before.rows
         THEN c.before.rows[c.enrollment_id].course_id
         ELSE None

\* C27: only active enrollments count toward max_students: an enroll or
\* undrop request that arrives while the course is open and has fewer
\* active enrollments than max_students is not refused for the limit (so
\* after a drop in a full course the same student can undrop and another
\* student can enroll).
C27_OnlyActiveCount ==
    \A i \in DOMAIN log :
        LET c == log[i].call
        IN c.op \in {"enroll_student", "undrop_enrollment"} =>
              LET k == CourseAsked(c)
                  T == c.before.courses
              IN (/\ k # None
                  /\ OpenCourse(T, k)
                  /\ T[k].max_students # None
                  /\ Cardinality(ActiveRowsOfCourse(c.before.rows, k))
                        < T[k].max_students)
                 => log[i].outcome # "limit_reached"


(***************************************************************************)
(* The enrollment caches against the store.                                *)
(***************************************************************************)
Quiet == \A p \in Procs : pc[p] = "idle"

\* C28: with the cache reachable and no enrollment operation in flight, a
\* present course:enrolled:{student}:{course} entry tells whether the store
\* has a row for the pair (a cached false never stands beside a row), and a
\* present course:enrollment_count:{course} entry is the number of rows of
\* the course, after any interleaving of enroll, drop and undrop calls.
C28_CachesAgreeWhenQuiet ==
    (Quiet /\ redisUp) =>
        \A k \in DOMAIN cache :
            /\ k[1] = "course:enrolled" =>
                  (JsonLoads(cache[k]) <=>
                     \E n \in DOMAIN enrollments :
                         /\ enrollments[n].student_id = k[2]
                         /\ enrollments[n].course_id = k[3])
            /\ k[1] = "course:enrollment_count" =>
                  JsonLoads(cache[k]) =
                     Cardinality({n \in DOMAIN enrollments :
                                     enrollments[n].course_id = k[2]})


Computed == {i \in DOMAIN log : log[i].call.op = "summary"}

=============================================================================
